---- MODULE Spec2Model ----
(***************************************************************************)
(* Nova Hub: packet routing and processing pipeline.                       *)
(*                                                                         *)
(* State machine of the hub process: the catalog tables (leagues,          *)
(* memberships, packets, processing runs), the directories under data_dir, *)
(* the singleton batch task with its suspension points, the directory      *)
(* watcher, and the service endpoints upload / list / download.            *)
(*                                                                         *)
(* File names are sequences of one-character strings, so that upper(),     *)
(* parse_packet_filename() and format(n, "02X") are computed as the code   *)
(* computes them.  Timestamps are abstracted: downloaded_at is NULL or 1,  *)
(* processed_at is NULL or the number of the batch that stamped it, and    *)
(* row ids stand for the order of uploaded_at.                             *)
(***************************************************************************)
EXTENDS Integers, Sequences, FiniteSets, TLC

VARIABLES
    leagues,        \* table leagues: sequence of rows, id = index
    memberships,    \* table league_memberships: set of rows
    packets,        \* table packets: sequence of rows, id = index
    runs,           \* table processing_runs: sequence of rows, id = index
    hub_inbound,    \* data_dir/packets/inbound   : set of [name, data]
    hub_outbound,   \* data_dir/packets/outbound  : set of [name, data]
    hub_processed,  \* data_dir/packets/processed : set of [name, data]
    game_inbound,   \* per (league, game) staging inbound directory
    game_outbound,  \* per (league, game) game outbound directory
    nodelists,      \* per (league, game) data_dir/nodelists/<game>/<league>
    task,           \* _processing_task: position of the batch coroutine
    lock,           \* _processing_lock is held
    batch,          \* locals of the running batch coroutine
    watcher,        \* watcher coroutines in flight: set of [dir, name]
    published,      \* events handed to the event bus, in order
    last,           \* the answer the step into this state gave to its caller
    env,            \* the inputs, downloads and batches the environment has issued
    alerts,         \* table sequence_alerts: sequence of rows, id = index
    connections,    \* _connections: the registered WebSockets
    client_connections, \* _client_connections: bbs_index -> WebSockets
    pub,            \* the publish (broadcast or send_to_client) in flight
    delivered,      \* what ws.send_text() has handed to which WebSocket
    wsenv           \* the WebSockets' life so far and the publishes issued

vars == << leagues, memberships, packets, runs, hub_inbound, hub_outbound,
           hub_processed, game_inbound, game_outbound, nodelists, task, lock,
           batch, watcher, published, last, env, alerts, connections,
           client_connections, pub, delivered, wsenv >>

\* the event bus of websocket_service.py
bus == << connections, client_connections, pub, delivered, wsenv >>

-----------------------------------------------------------------------------
(* Bounds of the model. *)

\* uploads, game emissions and refused operator requests the environment issues
MaxInputs == 2

\* downloads the environment issues
MaxDownloads == 1

\* batches the environment lets start
MaxBatches == 2

\* publishes of the event bus in one behaviour
MaxPublishes == 2

-----------------------------------------------------------------------------
(* Characters and strings. *)

NULL == -1

Digits == <<"0", "1", "2", "3", "4", "5", "6", "7", "8", "9">>

HexDigits == <<"0", "1", "2", "3", "4", "5", "6", "7", "8", "9",
               "A", "B", "C", "D", "E", "F">>

LowerLetters == <<"a", "b", "c", "d", "e", "f", "n", "o", "r", "s">>

UpperLetters == <<"A", "B", "C", "D", "E", "F", "N", "O", "R", "S">>

Range(s) == {s[i] : i \in DOMAIN s}

Index(s, c) == CHOOSE i \in DOMAIN s : s[i] = c

\* the characters of the file names of the model
Chars ==
    Range(Digits) \cup Range(LowerLetters) \cup Range(UpperLetters) \cup {"."}

\* the upper-case form of every character
UpperChar ==
    [c \in Chars |->
        IF c \in Range(LowerLetters) THEN UpperLetters[Index(LowerLetters, c)]
        ELSE c]

\* the lower-case form of every character
LowerChar ==
    [c \in Chars |->
        IF c \in Range(UpperLetters) THEN LowerLetters[Index(UpperLetters, c)]
        ELSE c]

\* str.upper()
Upper(s) == [i \in DOMAIN s |-> UpperChar[s[i]]]

\* str.lower()
Lower(s) == [i \in DOMAIN s |-> LowerChar[s[i]]]

\* str.startswith(prefix)
StartsWith(s, prefix) ==
    /\ Len(s) >= Len(prefix)
    /\ SubSeq(s, 1, Len(prefix)) = prefix

\* int(c) for every decimal digit
DigitVal == [c \in Range(Digits) |-> Index(Digits, c) - 1]

\* \d
IsDigit == Range(Digits)

\* [0-9A-F]
IsHex == Range(HexDigits)

\* format(n, "02X") and f"{n:02X}"
Hex02X(n) ==
    IF n < 16
    THEN <<"0", HexDigits[n + 1]>>
    ELSE <<HexDigits[(n \div 16) + 1], HexDigits[(n % 16) + 1]>>

None == [none |-> TRUE]

\* find_file_case_insensitive found nothing
NoFile == <<>>

\* ^(\d{3})([BF])([0-9A-F]{2})([0-9A-F]{2})\.(\d{3})$ matched on filename.upper()
parse_packet_filename(filename) ==
    LET u == Upper(filename)
    IN  IF /\ Len(u) = 12
           /\ \A i \in 1..3 : u[i] \in IsDigit
           /\ u[4] \in {"B", "F"}
           /\ \A i \in 5..8 : u[i] \in IsHex
           /\ u[9] = "."
           /\ \A i \in 10..12 : u[i] \in IsDigit
        THEN [ league_id        |-> SubSeq(u, 1, 3),
               game_type        |-> u[4],
               source_bbs_index |-> SubSeq(u, 5, 6),
               dest_bbs_index   |-> SubSeq(u, 7, 8),
               sequence_number  |-> DigitVal[u[10]] * 100 + DigitVal[u[11]] * 10
                                      + DigitVal[u[12]] ]
        ELSE None

BRNODES == <<"B", "R", "N", "O", "D", "E", "S", ".">>

FENODES == <<"F", "E", "N", "O", "D", "E", "S", ".">>

\* normalized_filename.startswith("BRNODES.") or ...startswith("FENODES.")
IsNodelistName(upper_name) ==
    StartsWith(upper_name, BRNODES) \/ StartsWith(upper_name, FENODES)

\* hashlib.sha256(content).hexdigest(): injective on the contents of the model
Sha256(content) == <<"sha256", content>>

-----------------------------------------------------------------------------
(* Directories: a directory is a set of [name, data] with distinct names. *)

Names(dir) == {f.name : f \in dir}

FileAt(dir, name) == CHOOSE f \in dir : f.name = name

\* Path.write_bytes / rename onto a path: an existing file is replaced
WriteFile(dir, name, data) ==
    {f \in dir : f.name # name} \cup {[name |-> name, data |-> data]}

\* Path.unlink
RemoveFile(dir, name) == {f \in dir : f.name # name}

\* find_file_case_insensitive(directory, filename): the name found, or None
find_file_case_insensitive(dir, filename) ==
    IF filename \in Names(dir)
    THEN filename
    ELSE IF \E n \in Names(dir) : Lower(n) = Lower(filename)
         THEN CHOOSE n \in Names(dir) : Lower(n) = Lower(filename)
         ELSE NoFile

-----------------------------------------------------------------------------
(* The inputs of the model: callers, URLs, file names and payloads. *)

Str3(a, b, c) == <<a, b, c>>

\* format(parts): <league><game><source><dest>.<seq>
PacketName(league, game, src, dst, seq) ==
    league \o <<game>> \o src \o dst \o <<".">> \o seq

L555 == Str3("5", "5", "5")

L013 == Str3("0", "1", "3")

\* league 555, game B, from BBS 02 to BBS 03
N_AB == PacketName(L555, "B", <<"0", "2">>, <<"0", "3">>, Str3("0", "0", "1"))

\* the same name as a client may send it, in lower case
n_ab == PacketName(L555, "b", <<"0", "2">>, <<"0", "3">>, Str3("0", "0", "1"))

\* league 555, game B, from the hub to BBS 03, as the DOS game writes it
n_hb == PacketName(L555, "b", <<"0", "1">>, <<"0", "3">>, Str3("0", "0", "1"))

\* league 555, game F, from BBS 02 to the hub
F_AH == PacketName(L555, "F", <<"0", "2">>, <<"0", "1">>, Str3("0", "0", "1"))

\* a name the grammar rejects
N_BAD == L555 \o <<"B", "0", "2", ".", "0", "0", "1">>

NL_555 == BRNODES \o L555

nl_555 == Lower(BRNODES) \o L555

\* the callers: client 1 is BBS 02 of 555B and of 555F, client 2 is BBS 03 of
\* 555B, client 3 has an inactive membership (BBS 04) of 555B
Clients == {1, 2, 3}

\* URL path parameter league_id, pattern ^\d{3}[BF]$
U555B == L555 \o <<"B">>

U555F == L555 \o <<"F">>

U013B == L013 \o <<"B">>

\* the bytes of the n-th file that enters the hub: no two files are alike,
\* except an upload that is repeated
Payload(n) == <<n>>

Request(client, url, filename, content) ==
    [client |-> client, url |-> url, filename |-> filename, content |-> content]

\* the uploads the callers attempt
UploadRequests ==
    {Request(1, U555B, N_AB, d) : d \in {Payload(0), <<>>}}
    \cup {Request(c, U555B, N_AB, Payload(0)) : c \in {2, 3}}
    \cup {Request(c, U555B, N_BAD, Payload(0)) : c \in {1, 3}}
    \cup {Request(1, U555B, f, Payload(0)) : f \in {n_ab, NL_555}}
    \cup {Request(1, u, N_AB, Payload(0)) : u \in {U555F, U013B}}
    \cup {Request(c, U555F, F_AH, Payload(0)) : c \in {1, 2}}
    \cup {Request(1, U013B,
                 PacketName(L013, "B", <<"0", "2">>, <<"0", "3">>,
                            Str3("0", "0", "1")),
                 Payload(0))}

\* the uploads whose commit the database refuses
FailingCommits == {Request(1, U555B, N_AB, Payload(0))}

\* the downloads the callers attempt
DownloadRequests ==
    {Request(c, U555B, f, <<>>) : c \in Clients, f \in {N_AB, nl_555}}
    \cup {Request(c, U555B, n_hb, <<>>) : c \in Clients}
    \cup {Request(2, U555F, n_hb, <<>>), Request(2, U013B, nl_555, <<>>),
          Request(2, U555B, N_BAD, <<>>)}

\* the memberships the operator adds: client 3 as BBS 04 of league 555B
MemberRequests == {[league |-> 1, client |-> 3, bbs_index |-> 4]}

Key(number, game) == [league_id |-> number, game_type |-> game]

\* the per-(league, game) working directories that can exist under data_dir
GameDirs == {Key(L555, "B"), Key(L555, "F"), Key(L013, "B")}

\* config["dosemu"][league_id][game]: the leagues with a DOSEMU configuration
Configured == {Key(L555, "B"), Key(L555, "F")}

\* config["hub"]["bbs_index"]
hub_index == <<"0", "1">>

\* what the game writes into which outbound directory
EmitChoices ==
    {[dir |-> Key(L555, "B"), name |-> n] : n \in {n_hb, nl_555}}

-----------------------------------------------------------------------------
(* Catalog rows and queries. *)

League(id, number, game) ==
    [id |-> id, league_id |-> number, game_type |-> game, is_active |-> TRUE]

Membership(id, client, league, bbs, active) ==
    [id |-> id, client_id |-> client, league_id |-> league, bbs_index |-> bbs,
     is_active |-> active]

\* db.query(League).filter(league_id == number, game_type == game).first()
LeagueByKey(lgs, number, game) ==
    LET hits == {i \in DOMAIN lgs :
                    lgs[i].league_id = number /\ lgs[i].game_type = game}
    IN  IF hits = {} THEN None
        ELSE lgs[CHOOSE i \in hits : \A j \in hits : i <= j]

\* db.query(LeagueMembership).filter(client_id, league_id, is_active).first()
ActiveMembership(client, league) ==
    LET hits == {m \in memberships :
                    /\ m.client_id = client
                    /\ m.league_id = league
                    /\ m.is_active}
    IN  IF hits = {} THEN None
        ELSE CHOOSE m \in hits : \A o \in hits : m.id <= o.id

\* parse_league_id(league_id): "555B" -> ("555", "B")
parse_league_id(url) == <<SubSeq(Upper(url), 1, 3), Upper(url)[4]>>

\* Packet(...) as upload_packet builds it; the column defaults fill the rest
UploadedPacket(id, filename, league, info, content) ==
    [ id                |-> id,
      filename          |-> filename,
      league_id         |-> league,
      source_bbs_index  |-> info.source_bbs_index,
      dest_bbs_index    |-> info.dest_bbs_index,
      sequence_number   |-> info.sequence_number,
      dest_client_id    |-> NULL,
      file_data         |-> content,
      file_size         |-> Len(content),
      checksum          |-> Sha256(content),
      downloaded_at     |-> NULL,
      processed_at      |-> NULL,
      processing_run_id |-> NULL,
      is_processed      |-> FALSE,
      is_downloaded     |-> FALSE ]

-----------------------------------------------------------------------------
(* The batch task, seen from the handlers. *)

\* the positions of the batch coroutine at which it is suspended in an await
\* (or not running), so that another handler of the event loop may run
Awaits == {"idle", "scheduled", "run_game", "collect", "ingest", "publish"}

AtAwait == task \in Awaits

\* trigger_processing() without the "not _processing_task.done()" test
trigger_always == "scheduled"

\* trigger_processing(): the task after the call
trigger_processing ==
    IF task # "idle"
    THEN task                 \* _processing_task and not _processing_task.done()
    ELSE "scheduled"          \* loop.create_task(process_batch())

\* the environment asks for at most MaxBatches batches
MayTrigger == task = "idle" => env.batches < MaxBatches

\* the environment issues at most MaxInputs uploads, game emissions and
\* operator requests that change nothing
MayInput == env.inputs < MaxInputs

Input(e) == [e EXCEPT !.inputs = @ + 1]

\* an accepted upload or a game emission is work no batch has seen yet
Fresh(e) == [e EXCEPT !.fresh = TRUE]

\* a batch begins: what is fresh now came before it
BatchBegins(e) == [e EXCEPT !.prior = e.fresh, !.fresh = FALSE]

Triggered(e) ==
    IF task = "idle" THEN [e EXCEPT !.batches = @ + 1] ELSE e

\* the answer a handler gives to its caller
Answer(op, status, detail) == [op |-> op, status |-> status, detail |-> detail]

\* a step of the batch, of the game or of the watcher answers no caller
NoAnswer == Answer("none", 0, "")

-----------------------------------------------------------------------------
(* Upload: PUT /leagues/{league_id}/packets/{filename} *)

\* upload_packet without the comparison of the source byte and the bbs_index
UploadOutcomeAnyBbs(client, url, filename, content) ==
    LET lid        == parse_league_id(url)
        normalized == Upper(filename)
        info       == parse_packet_filename(normalized)
    IN  IF IsNodelistName(normalized) THEN "nodelist_upload"
        ELSE IF info = None THEN "invalid_filename"
        ELSE IF info.league_id # lid[1] THEN "league_mismatch"
        ELSE IF info.game_type # lid[2] THEN "game_mismatch"
        ELSE IF content = <<>> THEN "empty_body"
        ELSE LET league     == LeagueByKey(leagues, lid[1], lid[2])
                 membership == IF league = None THEN None
                               ELSE ActiveMembership(client, league.id)
             IN  IF membership = None THEN "not_member" ELSE "received"

\* upload_packet without the comparison of the filename with the URL's league
UploadOutcomeAnyLeague(client, url, filename, content) ==
    LET lid        == parse_league_id(url)
        normalized == Upper(filename)
        info       == parse_packet_filename(normalized)
    IN  IF IsNodelistName(normalized) THEN "nodelist_upload"
        ELSE IF info = None THEN "invalid_filename"
        ELSE IF content = <<>> THEN "empty_body"
        ELSE LET league     == LeagueByKey(leagues, lid[1], lid[2])
                 membership == IF league = None THEN None
                               ELSE ActiveMembership(client, league.id)
             IN  IF membership = None THEN "not_member"
                 ELSE IF Upper(info.source_bbs_index) # Hex02X(membership.bbs_index)
                      THEN "bbs_mismatch"
                      ELSE "received"

\* which HTTPException upload_packet raises, or "received"
UploadOutcome(client, url, filename, content) ==
    LET lid        == parse_league_id(url)
        normalized == Upper(filename)
        info       == parse_packet_filename(normalized)
    IN  IF IsNodelistName(normalized) THEN "nodelist_upload"
        ELSE IF info = None THEN "invalid_filename"
        ELSE IF info.league_id # lid[1] THEN "league_mismatch"
        ELSE IF info.game_type # lid[2] THEN "game_mismatch"
        ELSE IF content = <<>> THEN "empty_body"
        ELSE LET league     == LeagueByKey(leagues, lid[1], lid[2])
                 membership == IF league = None THEN None
                               ELSE ActiveMembership(client, league.id)
             IN  IF membership = None THEN "not_member"
                 ELSE IF Upper(info.source_bbs_index) # Hex02X(membership.bbs_index)
                      THEN "bbs_mismatch"
                      ELSE "received"

UploadStatus(outcome) ==
    CASE outcome = "received" -> 200
      [] outcome \in {"nodelist_upload", "not_member", "bbs_mismatch"} -> 403
      [] OTHER -> 400

\* the leagues table after the "auto-create league" step of upload_packet
UploadLeagues(url, outcome) ==
    LET lid == parse_league_id(url)
    IN  IF /\ outcome \in {"not_member", "bbs_mismatch", "received"}
           /\ LeagueByKey(leagues, lid[1], lid[2]) = None
        THEN Append(leagues, League(Len(leagues) + 1, lid[1], lid[2]))
        ELSE leagues

upload_packet(client, url, filename, content) ==
    LET outcome    == UploadOutcome(client, url, filename, content)
        lid        == parse_league_id(url)
        normalized == Upper(filename)
        leagues1   == UploadLeagues(url, outcome)
    IN  /\ AtAwait
        /\ MayInput
        /\ outcome = "received" => MayTrigger
        /\ leagues' = leagues1
        /\ IF outcome = "received"
           THEN /\ hub_inbound' = WriteFile(hub_inbound, normalized, content)
                /\ packets' = Append(packets,
                       UploadedPacket(Len(packets) + 1, normalized,
                                      LeagueByKey(leagues1, lid[1], lid[2]).id,
                                      parse_packet_filename(normalized), content))
                /\ task' = trigger_processing
                /\ env' = Fresh(Input(Triggered(env)))
           ELSE /\ env' = Input(env)
                /\ UNCHANGED <<hub_inbound, packets, task>>
        /\ last' = Answer("upload", UploadStatus(outcome), outcome)
        /\ UNCHANGED <<alerts, bus, memberships, runs, hub_outbound, hub_processed,
                       game_inbound, game_outbound, nodelists, lock, batch,
                       watcher, published>>

\* upload_packet when db.commit() of the Packet row raises: the payload is
\* in the inbound directory by then, the league of the "auto-create" step is
\* committed, the exception leaves the handler before trigger_processing()
upload_commit_fails(client, url, filename, content) ==
    LET outcome    == UploadOutcome(client, url, filename, content)
        normalized == Upper(filename)
    IN  /\ AtAwait
        /\ MayInput
        /\ outcome = "received"
        /\ leagues' = UploadLeagues(url, outcome)
        /\ hub_inbound' = WriteFile(hub_inbound, normalized, content)
        /\ env' = Input(env)
        /\ last' = Answer("upload", 500, "commit_failed")
        /\ UNCHANGED <<alerts, bus, packets, task, memberships, runs,
                       hub_outbound, hub_processed, game_inbound, game_outbound,
                       nodelists, lock, batch, watcher, published>>

\* POST /processing/trigger: the operator's manual trigger
manual_trigger ==
    /\ AtAwait
    /\ MayTrigger
    /\ task # "idle" => MayInput
    /\ task' = trigger_processing
    /\ env' = IF task = "idle" THEN Triggered(env) ELSE Input(env)
    /\ last' = Answer("trigger", 200, IF task = "idle" THEN "started" ELSE "skipped")
    /\ UNCHANGED <<alerts, bus, leagues, memberships, packets, runs, hub_inbound,
                   hub_outbound, hub_processed, game_inbound, game_outbound,
                   nodelists, lock, batch, watcher, published>>

-----------------------------------------------------------------------------
(* Add Member: POST /management/api/v1/leagues/{league_id}/members *)

\* which HTTPException add_member raises, or "added"; the rows of the model
\* carry no fidonet_address, so its two checks are left out
AddMemberOutcome(league, client, bbs_index) ==
    IF league \notin DOMAIN leagues THEN "league_not_found"
    ELSE IF client \notin Clients THEN "client_not_found"
    ELSE IF ~(1 <= bbs_index /\ bbs_index <= 255) THEN "bad_bbs_index"
    ELSE IF \E m \in memberships : /\ m.league_id = league
                                   /\ m.bbs_index = bbs_index
                                   /\ m.is_active
         THEN "bbs_index_taken"
         ELSE "added"

\* the memberships table after add_member: an existing row of the client is
\* reactivated, else a row is inserted
WithMember(league, client, bbs_index) ==
    LET hits == {m \in memberships :
                    m.league_id = league /\ m.client_id = client}
    IN  IF hits # {}
        THEN LET existing == CHOOSE m \in hits : \A o \in hits : m.id <= o.id
             IN  (memberships \ {existing}) \cup
                 {[existing EXCEPT !.is_active = TRUE, !.bbs_index = bbs_index]}
        ELSE memberships \cup
             {Membership(Cardinality(memberships) + 1, client, league,
                         bbs_index, TRUE)}

add_member(league, client, bbs_index) ==
    LET outcome == AddMemberOutcome(league, client, bbs_index)
    IN  /\ AtAwait
        /\ outcome # "added" => MayInput
        /\ env' = IF outcome = "added" THEN env ELSE Input(env)
        /\ memberships' = IF outcome = "added"
                          THEN WithMember(league, client, bbs_index)
                          ELSE memberships
        /\ last' = Answer("add_member",
                          CASE outcome = "added" -> 200
                            [] outcome \in {"league_not_found",
                                            "client_not_found"} -> 404
                            [] OTHER -> 400,
                          outcome)
        /\ UNCHANGED <<alerts, bus, leagues, packets, runs, hub_inbound, hub_outbound,
                       hub_processed, game_inbound, game_outbound, nodelists,
                       task, lock, batch, watcher, published>>

-----------------------------------------------------------------------------
(* List: GET /leagues/{league_id}/packets?unread=<bool> *)

\* the ids of the rows list_packets returns
list_packets(client, url, unread) ==
    LET lid    == parse_league_id(url)
        league == LeagueByKey(leagues, lid[1], lid[2])
        ms     == IF league = None THEN {}
                  ELSE {m \in memberships :
                           /\ m.client_id = client
                           /\ m.league_id = league.id
                           /\ m.is_active}
    IN  {i \in DOMAIN packets :
            /\ \E m \in ms : /\ packets[i].league_id = m.league_id
                              /\ packets[i].dest_bbs_index = Hex02X(m.bbs_index)
            /\ unread => packets[i].downloaded_at = NULL}

-----------------------------------------------------------------------------
(* Download: GET /leagues/{league_id}/packets/{filename} *)

\* .filter(filename == f).order_by(is_downloaded.asc(), uploaded_at.desc()).first()
DownloadRow(filename) ==
    LET hits == {i \in DOMAIN packets : packets[i].filename = filename}
        Before(i, j) ==
            \/ (~packets[i].is_downloaded) /\ packets[j].is_downloaded
            \/ packets[i].is_downloaded = packets[j].is_downloaded /\ i >= j
    IN  IF hits = {} THEN NULL
        ELSE CHOOSE i \in hits : \A j \in hits : Before(i, j)

\* .filter(filename == f, league_id == l, dest_bbs_index == d).first():
\* the member-specific row of a nodelist, or NULL
NodelistRowIn(rows, filename, league, dest_bbs_hex) ==
    LET hits == {i \in DOMAIN rows :
                    /\ rows[i].filename = filename
                    /\ rows[i].league_id = league
                    /\ rows[i].dest_bbs_index = dest_bbs_hex}
    IN  IF hits = {} THEN NULL
        ELSE CHOOSE i \in hits : \A j \in hits : i <= j

NodelistRow(filename, league, dest_bbs_hex) ==
    NodelistRowIn(packets, filename, league, dest_bbs_hex)

\* which HTTPException _download_nodelist raises, or "ok"
DownloadNodelistOutcome(client, lid, filename) ==
    LET league == LeagueByKey(leagues, lid[1], lid[2])
    IN  IF league = None THEN "league_not_found"
        ELSE IF ActiveMembership(client, league.id) = None THEN "not_member"
        ELSE IF find_file_case_insensitive(
                    nodelists[Key(lid[1], lid[2])], filename) = NoFile
             THEN "nodelist_not_found"
             ELSE "ok"

\* _download_packet without the comparison of the dest byte and the bbs_index
DownloadPacketOutcomeAnyDest(client, lid, filename) ==
    LET info == parse_packet_filename(filename)
        row  == DownloadRow(filename)
    IN  IF info = None THEN "invalid_filename"
        ELSE IF info.league_id # lid[1] THEN "league_mismatch"
        ELSE IF info.game_type # lid[2] THEN "game_mismatch"
        ELSE IF row = NULL THEN "packet_not_found"
        ELSE IF ActiveMembership(client, packets[row].league_id) = None
             THEN "not_member"
        ELSE IF filename \notin Names(hub_outbound) THEN "file_not_found"
        ELSE "ok"

\* which HTTPException _download_packet raises, or "ok"
DownloadPacketOutcome(client, lid, filename) ==
    LET info == parse_packet_filename(filename)
        row  == DownloadRow(filename)
    IN  IF info = None THEN "invalid_filename"
        ELSE IF info.league_id # lid[1] THEN "league_mismatch"
        ELSE IF info.game_type # lid[2] THEN "game_mismatch"
        ELSE IF row = NULL THEN "packet_not_found"
        ELSE LET membership == ActiveMembership(client, packets[row].league_id)
             IN  IF membership = None THEN "not_member"
                 ELSE IF Upper(info.dest_bbs_index) # Hex02X(membership.bbs_index)
                      THEN "dest_mismatch"
                 ELSE IF filename \notin Names(hub_outbound)
                      THEN "file_not_found"
                      ELSE "ok"

DownloadOutcome(client, url, filename) ==
    LET lid        == parse_league_id(url)
        normalized == Upper(filename)
    IN  IF IsNodelistName(normalized)
        THEN DownloadNodelistOutcome(client, lid, normalized)
        ELSE DownloadPacketOutcome(client, lid, normalized)

DownloadStatus(outcome) ==
    CASE outcome = "ok" -> 200
      [] outcome \in {"not_member", "dest_mismatch"} -> 403
      [] outcome \in {"league_not_found", "nodelist_not_found",
                      "packet_not_found", "file_not_found"} -> 404
      [] OTHER -> 400

\* packet.downloaded_at = datetime.now(); packet.is_downloaded = True
MarkDownloaded(rows, i) ==
    [rows EXCEPT ![i].downloaded_at = 1, ![i].is_downloaded = TRUE]

\* the row a successful download stamps, or NULL
DownloadStamps(client, url, filename) ==
    LET lid        == parse_league_id(url)
        normalized == Upper(filename)
    IN  IF IsNodelistName(normalized)
        THEN LET league == LeagueByKey(leagues, lid[1], lid[2])
             IN  NodelistRow(normalized, league.id,
                     Hex02X(ActiveMembership(client, league.id).bbs_index))
        ELSE DownloadRow(normalized)

download_packet(client, url, filename) ==
    LET outcome == DownloadOutcome(client, url, filename)
    IN  /\ AtAwait
        /\ env.downloads < MaxDownloads
        /\ env' = [env EXCEPT !.downloads = @ + 1]
        /\ IF outcome = "ok" /\ DownloadStamps(client, url, filename) # NULL
           THEN packets' = MarkDownloaded(packets,
                                          DownloadStamps(client, url, filename))
           ELSE UNCHANGED packets
        /\ last' = Answer("download", DownloadStatus(outcome), outcome)
        /\ UNCHANGED <<alerts, bus, leagues, memberships, runs, hub_inbound, hub_outbound,
                       hub_processed, game_inbound, game_outbound, nodelists,
                       task, lock, batch, watcher, published>>

-----------------------------------------------------------------------------
(* The batch processor: process_batch() and ProcessingService. *)

Ids(rows) == [i \in 1..Len(rows) |-> i]

\* self.get_game_type(packet)
get_game_type(p) == leagues[p.league_id].game_type

GameLetter(game) == IF game = "BRE" THEN "B" ELSE "F"

\* db.query(Packet).all(), without the filter on processed_at
EveryPacket == Ids(packets)

\* db.query(Packet).filter(Packet.processed_at == None).all()
Unprocessed ==
    LET Test(i) == packets[i].processed_at = NULL
    IN  SelectSeq(Ids(packets), Test)

\* bre_packets / fe_packets of a selection
Subset(sel, game) ==
    LET Test(i) == get_game_type(packets[i]) = GameLetter(game)
    IN  SelectSeq(sel, Test)

\* db.query(League).filter(League.is_active == True).all()
ActiveLeagues ==
    LET Test(i) == leagues[i].is_active
    IN  SelectSeq(Ids(leagues), Test)

NoBatch ==
    [ no      |-> 0,        \* the number of this batch, standing for now()
      sel     |-> <<>>,     \* packets: the initial selection (row ids)
      run     |-> NULL,     \* run.id
      game    |-> "",       \* the game subset being processed
      dir     |-> None,     \* the (league, game) of the working directories
      ctx     |-> "",       \* who called collect_outbound_packets
      todo    |-> {},       \* the files outbound_dir.glob("*") still yields
      sweepq  |-> <<>>,     \* the leagues scan_outbound_folders still visits
      results |-> [BRE |-> "none", FE |-> "none"] ]

ProcessingRun(id) ==
    [id |-> id, status |-> "running", packets_processed |-> 0,
     error_message |-> NULL]

\* process_batch(): the task starts running; lines 77-141
BatchStart ==
    /\ task = "scheduled"
    /\ IF lock
       THEN \* _processing_lock.acquire(blocking=False) failed
            /\ task' = "idle"
            /\ UNCHANGED <<lock, batch, runs>>
       ELSE /\ lock' = TRUE
            /\ IF Unprocessed = <<>>
               THEN \* no packets: only scan_outbound_folders()
                    /\ batch' = [NoBatch EXCEPT !.no = env.batches,
                                                !.ctx = "sweep",
                                                !.sweepq = ActiveLeagues]
                    /\ task' = "sweep"
                    /\ UNCHANGED runs
               ELSE /\ runs' = Append(runs, ProcessingRun(Len(runs) + 1))
                    /\ batch' = [NoBatch EXCEPT
                          !.no = env.batches,
                          !.sel = Unprocessed,
                          !.run = Len(runs) + 1,
                          !.game = IF Subset(Unprocessed, "BRE") # <<>>
                                   THEN "BRE" ELSE "FE"]
                    /\ task' = "stage"
    /\ env' = BatchBegins(env)
    /\ last' = NoAnswer
    /\ UNCHANGED <<alerts, bus, leagues, memberships, packets, hub_inbound, hub_outbound,
                   hub_processed, game_inbound, game_outbound, nodelists,
                   watcher, published>>

\* Step 1 of process_game_batch: copy the subset from hub inbound to game inbound
StageFiles(dir, subset) ==
    LET found == {i \in Range(subset) :
                    find_file_case_insensitive(hub_inbound, packets[i].filename)
                        # NoFile}
        staged == {[name |-> packets[i].filename,
                    data |-> FileAt(hub_inbound,
                               find_file_case_insensitive(
                                   hub_inbound, packets[i].filename)).data]
                   : i \in found}
    IN  {f \in dir : f.name \notin Names(staged)} \cup staged

\* process_game_batch(game, subset, run.id) up to the await of the runner
StageSubset ==
    /\ task = "stage"
    /\ LET subset == Subset(batch.sel, batch.game)
           first  == packets[subset[1]]
           league == leagues[first.league_id]
           dir    == Key(league.league_id, GameLetter(batch.game))
       IN  /\ game_inbound' =
                 [game_inbound EXCEPT ![dir] = StageFiles(@, subset)]
           /\ batch' = [batch EXCEPT !.dir = dir, !.ctx = "batch"]
    /\ task' = "run_game"
    /\ last' = NoAnswer
    /\ UNCHANGED <<alerts, bus, leagues, memberships, packets, runs, hub_inbound,
                   hub_outbound, hub_processed, game_outbound, nodelists, lock,
                   watcher, published, env>>

\* the next position after a game subset: the FE subset, or closing the run
AfterSubset(b) ==
    IF b.game = "BRE" /\ Subset(b.sel, "FE") # <<>> THEN "stage" ELSE "close"

Advance(b, result) ==
    [b EXCEPT !.results[b.game] = result,
              !.game = IF AfterSubset(b) = "stage" THEN "FE" ELSE b.game,
              !.todo = {}]

\* Step 3 of process_game_batch: packet.processed_at = datetime.now()
MarkProcessed(rows, subset, now) ==
    [i \in DOMAIN rows |->
        IF i \in Range(subset) THEN [rows[i] EXCEPT !.processed_at = now]
        ELSE rows[i]]

\* Step 3 of process_game_batch: the files moved out of hub inbound
Archived(subset) ==
    {f \in hub_inbound :
        \E i \in Range(subset) :
            find_file_case_insensitive(hub_inbound, packets[i].filename) = f.name}

\* the statuses _run_dosemu_command can return for a working directory
RunnerStatuses(dir) ==
    IF dir \in Configured THEN {"success", "error", "timeout"} ELSE {"error"}

\* the runner returns; Steps 2 and 3 of process_game_batch
RunnerReturns(status) ==
    /\ task = "run_game"
    /\ status \in RunnerStatuses(batch.dir)
    /\ IF status # "success"
       THEN /\ batch' = Advance(batch, status)
            /\ task' = AfterSubset(batch)
            /\ UNCHANGED <<packets, hub_inbound, hub_processed>>
       ELSE LET subset == Subset(batch.sel, batch.game)
            IN  /\ packets' = MarkProcessed(packets, subset, batch.no)
                /\ hub_inbound' = hub_inbound \ Archived(subset)
                /\ hub_processed' =
                      {f \in hub_processed :
                          f.name \notin Names(Archived(subset))}
                      \cup Archived(subset)
                /\ batch' = [batch EXCEPT
                      !.results[batch.game] = status,
                      !.todo = Names(game_outbound[batch.dir])]
                /\ task' = "collect"
    /\ last' = NoAnswer
    /\ UNCHANGED <<alerts, bus, leagues, memberships, runs, hub_outbound, game_inbound,
                   game_outbound, nodelists, lock, watcher, published, env>>

-----------------------------------------------------------------------------
(* collect_outbound_packets and handle_nodelist_file. *)

\* an event handed to the event bus
Event(type, name, dest, run) ==
    [type |-> type, name |-> name, dest |-> dest, run |-> run]

\* db.query(Packet).filter(Packet.filename == normalized_filename).first()
PacketByName(rows, filename) ==
    LET hits == {i \in DOMAIN rows : rows[i].filename = filename}
    IN  IF hits = {} THEN NULL
        ELSE CHOOSE i \in hits : \A j \in hits : i <= j

\* Packet(...) as collect_outbound_packets builds it
CollectedPacket(id, filename, league, info, content, run_id, now) ==
    [UploadedPacket(id, filename, league, info, content) EXCEPT
        !.processing_run_id = run_id,
        !.processed_at = now]

\* the update of an existing row in collect_outbound_packets
UpdatedPacket(row, info, content, run_id, now) ==
    [row EXCEPT
        !.source_bbs_index = info.source_bbs_index,
        !.dest_bbs_index = info.dest_bbs_index,
        !.sequence_number = info.sequence_number,
        !.file_size = Len(content),
        !.file_data = content,
        !.checksum = Sha256(content),
        !.processing_run_id = run_id,
        !.processed_at = now,
        !.is_downloaded = FALSE,
        !.downloaded_at = NULL]

\* collect_outbound_packets moving the file without a row for it
CollectUnregistered(rows, filename, league, info, content, run_id, now) == rows

\* collect_outbound_packets without the lookup of an existing row
InsertCollected(rows, filename, league, info, content, run_id, now) ==
    Append(rows, CollectedPacket(Len(rows) + 1, filename, league, info,
                                 content, run_id, now))

\* the upsert of collect_outbound_packets, keyed on the normalized filename
UpsertCollected(rows, filename, league, info, content, run_id, now) ==
    LET existing == PacketByName(rows, filename)
    IN  IF existing # NULL
        THEN [rows EXCEPT
                ![existing] = UpdatedPacket(@, info, content, run_id, now)]
        ELSE Append(rows, CollectedPacket(Len(rows) + 1, filename, league,
                                          info, content, run_id, now))

\* the leagues table after "get or create league"
LeaguesWith(lgs, number, letter) ==
    IF LeagueByKey(lgs, number, letter) = None
    THEN Append(lgs, League(Len(lgs) + 1, number, letter))
    ELSE lgs

\* move into a directory under the uppercase name, deleting a case variant
MoveInto(dir, normalized, content) ==
    LET existing_file == find_file_case_insensitive(dir, normalized)
    IN  WriteFile(IF existing_file # NoFile THEN RemoveFile(dir, existing_file)
                  ELSE dir,
                  normalized, content)

\* Packet(...) as handle_nodelist_file builds it
NodelistPacket(id, filename, league, m, content, now) ==
    [ id                |-> id,
      filename          |-> filename,
      league_id         |-> league,
      source_bbs_index  |-> <<"0", "0">>,
      dest_bbs_index    |-> Hex02X(m.bbs_index),
      sequence_number   |-> 0,
      dest_client_id    |-> m.client_id,
      file_data         |-> content,
      file_size         |-> Len(content),
      checksum          |-> Sha256(content),
      downloaded_at     |-> NULL,
      processed_at      |-> now,
      processing_run_id |-> NULL,
      is_processed      |-> TRUE,
      is_downloaded     |-> FALSE ]

\* the update of an existing member row in handle_nodelist_file
UpdatedNodelistPacket(row, content, now) ==
    [row EXCEPT
        !.file_data = content,
        !.file_size = Len(content),
        !.checksum = Sha256(content),
        !.processed_at = now,
        !.is_processed = TRUE,
        !.is_downloaded = FALSE,
        !.downloaded_at = NULL]

RECURSIVE InIdOrder(_)
\* .all(): the rows of a query in id order
InIdOrder(S) ==
    IF S = {} THEN <<>>
    ELSE LET m == CHOOSE x \in S : \A y \in S : x.id <= y.id
         IN  <<m>> \o InIdOrder(S \ {m})

\* the memberships of a league, without the is_active filter
AllMembers(league) ==
    InIdOrder({m \in memberships : m.league_id = league})

\* the active memberships of a league
ActiveMembers(league) ==
    InIdOrder({m \in memberships : m.league_id = league /\ m.is_active})

RECURSIVE NodelistFanout(_, _, _, _, _, _)
\* the loop "for membership in memberships" of handle_nodelist_file
NodelistFanout(rows, ms, filename, league, content, now) ==
    IF ms = <<>> THEN rows
    ELSE LET m        == Head(ms)
             existing == NodelistRowIn(rows, filename, league,
                                       Hex02X(m.bbs_index))
             rows1    == IF existing # NULL
                         THEN [rows EXCEPT ![existing] =
                                 UpdatedNodelistPacket(@, content, now)]
                         ELSE Append(rows,
                                 NodelistPacket(Len(rows) + 1, filename,
                                                league, m, content, now))
         IN  NodelistFanout(rows1, Tail(ms), filename, league, content, now)

\* how one iteration of the loop of collect_outbound_packets ends
CollectCase(name) ==
    LET info == parse_packet_filename(name)
    IN  IF name \notin Names(game_outbound[batch.dir]) THEN "gone"
        ELSE IF IsNodelistName(Upper(name)) THEN "nodelist"
        ELSE IF info = None THEN "error"
        ELSE IF info.dest_bbs_index = hub_index THEN "hub"
        ELSE "packet"

\* handle_nodelist_file(nodelist_file, game_type)
handle_nodelist_file(name) ==
    LET filename_upper == Upper(name)
        league_number  == SubSeq(filename_upper, 9, Len(filename_upper))
        letter         == GameLetter(batch.game)
        file_data      == FileAt(game_outbound[batch.dir], name).data
        league         == LeagueByKey(leagues, league_number, letter)
    IN  /\ nodelists' = [nodelists EXCEPT ![Key(league_number, letter)] =
                            MoveInto(@, filename_upper, file_data)]
        /\ game_outbound' = [game_outbound EXCEPT ![batch.dir] =
                                RemoveFile(@, name)]
        /\ packets' = IF league = None THEN packets
                      ELSE NodelistFanout(packets, ActiveMembers(league.id),
                                          filename_upper, league.id, file_data,
                                          batch.no)
        /\ published' = Append(published,
                             Event("nodelist_available", league_number,
                                   <<letter>>, NULL))
        /\ UNCHANGED <<leagues, hub_outbound>>

\* the body of the loop of collect_outbound_packets for a packet file
collect_packet(name) ==
    LET packet_info == parse_packet_filename(name)
        letter      == GameLetter(batch.game)
        leagues1    == LeaguesWith(leagues, packet_info.league_id, letter)
        league      == LeagueByKey(leagues1, packet_info.league_id, letter)
        content     == FileAt(game_outbound[batch.dir], name).data
        normalized  == Upper(name)
        run_id      == IF batch.ctx = "batch" THEN batch.run ELSE 0
    IN  /\ leagues' = leagues1
        /\ hub_outbound' = MoveInto(hub_outbound, normalized, content)
        /\ game_outbound' = [game_outbound EXCEPT ![batch.dir] =
                                RemoveFile(@, name)]
        /\ packets' = UpsertCollected(packets, normalized, league.id,
                                      packet_info, content, run_id, batch.no)
        /\ published' = Append(published,
                             Event("packet_available", normalized,
                                   packet_info.dest_bbs_index, NULL))
        /\ UNCHANGED nodelists

\* one iteration of "for packet_file in outbound_dir.glob('*')"
CollectStep(name) ==
    /\ task = "collect"
    /\ name \in batch.todo
    /\ CASE CollectCase(name) = "nodelist" -> handle_nodelist_file(name)
         [] CollectCase(name) = "packet" -> collect_packet(name)
         [] OTHER -> UNCHANGED <<leagues, packets, hub_outbound, game_outbound,
                                 nodelists, published>>
    /\ batch' = [batch EXCEPT !.todo = @ \ {name}]
    /\ last' = NoAnswer
    /\ UNCHANGED <<alerts, bus, memberships, runs, hub_inbound, hub_processed,
                   game_inbound, task, lock, watcher, env>>

\* the loop of collect_outbound_packets is over
CollectDone ==
    /\ task = "collect"
    /\ batch.todo = {}
    /\ task' = IF batch.ctx = "batch" THEN "ingest" ELSE "sweep"
    /\ last' = NoAnswer
    /\ UNCHANGED <<alerts, bus, leagues, memberships, packets, runs, hub_inbound,
                   hub_outbound, hub_processed, game_inbound, game_outbound,
                   nodelists, lock, batch, watcher, published, env>>

-----------------------------------------------------------------------------
(* The rest of a batch: ingest and cleanup, closing the run, the sweep. *)

\* Steps 5 and 6 of process_game_batch: the additional commands have run,
\* the game inbound directory is emptied
IngestDone ==
    /\ task = "ingest"
    /\ game_inbound' = [game_inbound EXCEPT ![batch.dir] = {}]
    /\ batch' = Advance(batch, batch.results[batch.game])
    /\ task' = AfterSubset(batch)
    /\ last' = NoAnswer
    /\ UNCHANGED <<alerts, bus, leagues, memberships, packets, runs, hub_inbound,
                   hub_outbound, hub_processed, game_outbound, nodelists, lock,
                   watcher, published, env>>

-----------------------------------------------------------------------------
(* SequenceValidator: check_sequences, find_gaps, create_alert_if_new,
   auto_resolve_alerts. *)

SEQUENCE_RANGE == 1000

WRAP_DETECTION_THRESHOLD == 500

\* sorted(set(sequences))
Sorted(S) == SelectSeq([i \in 1..SEQUENCE_RANGE |-> i - 1], LAMBDA x : x \in S)

\* the dicts find_gaps appends for one pair without the received sequence:
\* received_sequence holds the sequence before the gap
GapRecordsFromCurrent(current, next_seq, gap_size, wrap) ==
    [j \in 1..gap_size |->
        [ expected_sequence |-> IF wrap THEN (current + j) % SEQUENCE_RANGE
                                ELSE current + j,
          received_sequence |-> current,
          gap_size          |-> gap_size ]]

\* the dicts find_gaps appends for one pair (current, next_seq) of the scan
GapRecords(current, next_seq, gap_size, wrap) ==
    [j \in 1..gap_size |->
        [ expected_sequence |-> IF wrap THEN (current + j) % SEQUENCE_RANGE
                                ELSE current + j,
          received_sequence |-> next_seq,
          gap_size          |-> gap_size ]]

\* gap_size of a pair: in the reordered scan a pair may step over the wrap
GapSize(current, next_seq, wrap) ==
    IF wrap /\ next_seq <= current
    THEN (SEQUENCE_RANGE - current - 1) + next_seq
    ELSE next_seq - current - 1

RECURSIVE ScanGaps(_, _, _)
\* the loop "for i in range(len(seqs) - 1)" over the pairs that have a gap
ScanGaps(seqs, pairs, wrap) ==
    IF pairs = <<>> THEN <<>>
    ELSE LET i == Head(pairs)
         IN  GapRecords(seqs[i], seqs[i + 1],
                        GapSize(seqs[i], seqs[i + 1], wrap), wrap)
             \o ScanGaps(seqs, Tail(pairs), wrap)

\* whether find_gaps takes the branch that reorders around an internal gap
Reorders(sorted_seqs) ==
    LET n       == Len(sorted_seqs)
        gaps    == {sorted_seqs[i + 1] - sorted_seqs[i] : i \in 1..(n - 1)}
        max_gap == CHOOSE g \in gaps : \A h \in gaps : h <= g
        wrap_gap == (SEQUENCE_RANGE - sorted_seqs[n]) + sorted_seqs[1]
    IN  max_gap > WRAP_DETECTION_THRESHOLD /\ max_gap > wrap_gap

\* SequenceValidator.find_gaps(sequences), sequences given as their set
find_gaps(sequences) ==
    LET sorted_seqs == Sorted(sequences)
        n           == Len(sorted_seqs)
        gap(i)      == sorted_seqs[i + 1] - sorted_seqs[i]
        gaps        == {gap(i) : i \in 1..(n - 1)}
        max_gap     == CHOOSE g \in gaps : \A h \in gaps : h <= g
        largest     == {i \in 1..(n - 1) : gap(i) = max_gap}
        \* the first index with the largest gap ("if gap > max_gap")
        wrap_index  == CHOOSE i \in largest : \A j \in largest : i <= j
        wrap        == Reorders(sorted_seqs)
        seqs        == IF wrap
                       THEN SubSeq(sorted_seqs, wrap_index + 1, n)
                            \o SubSeq(sorted_seqs, 1, wrap_index)
                       ELSE sorted_seqs
        pairs       == SelectSeq([i \in 1..(n - 1) |-> i],
                          LAMBDA i :
                             /\ GapSize(seqs[i], seqs[i + 1], wrap) > 0
                             /\ GapSize(seqs[i], seqs[i + 1], wrap)
                                   < WRAP_DETECTION_THRESHOLD)
    IN  IF n < 2 THEN <<>> ELSE ScanGaps(seqs, pairs, wrap)

Route(league, source, dest) ==
    [league_id |-> league, source_bbs_index |-> source, dest_bbs_index |-> dest]

RouteOf(row) == Route(row.league_id, row.source_bbs_index, row.dest_bbs_index)

\* SELECT DISTINCT league_id, source_bbs_index, dest_bbs_index FROM packets,
\* in the order of the first row of each route
Routes(rows) ==
    LET distinct == {RouteOf(rows[i]) : i \in DOMAIN rows}
        at(r)    == {i \in DOMAIN rows : RouteOf(rows[i]) = r}
        first    == [r \in distinct |-> CHOOSE i \in at(r) : \A j \in at(r) : i <= j]
    IN  [k \in 1..Cardinality(distinct) |->
            CHOOSE r \in distinct :
               Cardinality({q \in distinct : first[q] < first[r]}) = k - 1]

\* SELECT sequence_number FROM packets WHERE <route>
RouteSequences(rows, route) ==
    {rows[i].sequence_number : i \in {j \in DOMAIN rows : RouteOf(rows[j]) = route}}

SequenceAlert(id, route, gap_info) ==
    [ id                |-> id,
      league_id         |-> route.league_id,
      source_bbs_index  |-> route.source_bbs_index,
      dest_bbs_index    |-> route.dest_bbs_index,
      expected_sequence |-> gap_info.expected_sequence,
      received_sequence |-> gap_info.received_sequence,
      gap_size          |-> gap_info.gap_size,
      is_resolved       |-> FALSE,
      resolved_at       |-> NULL ]

\* the query of create_alert_if_new, for every gap at once: the expected
\* sequences of the unresolved alerts of the route
Existing(rows, route) ==
    {rows[i].expected_sequence :
        i \in {j \in DOMAIN rows : /\ rows[j].league_id = route.league_id
                                  /\ rows[j].source_bbs_index = route.source_bbs_index
                                  /\ rows[j].dest_bbs_index = route.dest_bbs_index
                                  /\ ~rows[j].is_resolved}}

\* create_alert_if_new without the query for an existing alert
CreateAlertsAlways(rows, route, gaps) ==
    rows \o [k \in 1..Len(gaps) |-> SequenceAlert(Len(rows) + k, route, gaps[k])]

\* "for gap_info in gaps: self.create_alert_if_new(route, gap_info)"
CreateAlerts(rows, route, gaps) ==
    LET existing == Existing(rows, route)
        \* no two gaps of the list name the same sequence
        distinct == Cardinality({gaps[k].expected_sequence : k \in DOMAIN gaps})
                       = Len(gaps)
        new == SelectSeq([k \in 1..Len(gaps) |-> k],
                  LAMBDA k :
                     /\ gaps[k].expected_sequence \notin existing
                     \* an alert created earlier in this loop exists by now
                     /\ distinct \/ \A j \in 1..(k - 1) :
                           gaps[j].expected_sequence # gaps[k].expected_sequence)
    IN  rows \o [k \in 1..Len(new) |->
                   SequenceAlert(Len(rows) + k, route, gaps[new[k]])]

RECURSIVE CheckRoutes(_, _, _)
\* "for route in routes" of check_sequences
CheckRoutes(rows, routes, alert_rows) ==
    IF routes = <<>> THEN alert_rows
    ELSE CheckRoutes(rows, Tail(routes),
            CreateAlerts(alert_rows, Head(routes),
                         find_gaps(RouteSequences(rows, Head(routes)))))

\* SequenceValidator.check_sequences(): the alerts table afterwards
check_sequences(rows, alert_rows) == CheckRoutes(rows, Routes(rows), alert_rows)

\* the packet query of auto_resolve_alerts without the route
PacketExistsAnyRoute(rows, alert) ==
    \E p \in Range(rows) : p.sequence_number = alert.expected_sequence

\* the packet query of auto_resolve_alerts
PacketExists(rows, alert) ==
    \E p \in Range(rows) :
       /\ p.league_id = alert.league_id
       /\ p.source_bbs_index = alert.source_bbs_index
       /\ p.dest_bbs_index = alert.dest_bbs_index
       /\ p.sequence_number = alert.expected_sequence

\* SequenceValidator.auto_resolve_alerts(): the alerts table afterwards
auto_resolve_alerts(rows, alert_rows) ==
    [i \in DOMAIN alert_rows |->
        IF ~alert_rows[i].is_resolved /\ PacketExists(rows, alert_rows[i])
        THEN [alert_rows[i] EXCEPT !.is_resolved = TRUE, !.resolved_at = 1]
        ELSE alert_rows[i]]

-----------------------------------------------------------------------------
(* The end of a batch. *)

\* process_batch without the assignment to run.status
CloseStatusUntouched(results) == "running"

\* run.status once both subsets have returned: lines 158-161
CloseStatus(results) == "completed"

\* process_batch closes the run and starts scan_outbound_folders()
CloseRun ==
    /\ task = "close"
    /\ runs' = [runs EXCEPT
          ![batch.run].status = CloseStatus(batch.results),
          ![batch.run].packets_processed = Len(batch.sel)]
    /\ alerts' = check_sequences(packets, alerts)
    /\ batch' = [batch EXCEPT !.ctx = "sweep", !.sweepq = ActiveLeagues,
                              !.dir = None]
    /\ task' = "sweep"
    /\ last' = NoAnswer
    /\ UNCHANGED <<bus, leagues, memberships, packets, hub_inbound, hub_outbound,
                   hub_processed, game_inbound, game_outbound, nodelists, lock,
                   watcher, published, env>>

\* one iteration of "for league in leagues" of scan_outbound_folders, or its
\* end: the batch awaits broadcast_processing_complete, or returns
SweepNext ==
    /\ task = "sweep"
    /\ IF batch.sweepq = <<>>
       THEN /\ IF batch.run # NULL
               THEN task' = "publish" /\ UNCHANGED lock
               ELSE task' = "idle" /\ lock' = FALSE
            /\ batch' = IF batch.run # NULL THEN batch ELSE NoBatch
       ELSE LET league == leagues[Head(batch.sweepq)]
                dir    == Key(league.league_id, league.game_type)
                files  == Names(game_outbound[dir])
            IN  /\ batch' = [batch EXCEPT
                      !.sweepq = Tail(@),
                      !.dir = dir,
                      !.game = IF league.game_type = "B" THEN "BRE" ELSE "FE",
                      !.todo = files]
                /\ task' = IF files # {} THEN "collect" ELSE "sweep"
                /\ UNCHANGED lock
    /\ last' = NoAnswer
    /\ UNCHANGED <<alerts, bus, leagues, memberships, packets, runs, hub_inbound,
                   hub_outbound, hub_processed, game_inbound, game_outbound,
                   nodelists, watcher, published, env>>

\* broadcast_processing_complete(run.id) returns; the lock is released
BatchFinish ==
    /\ task = "publish"
    /\ published' = Append(published,
                         Event("processing_complete", <<>>, <<>>, batch.run))
    /\ task' = "idle"
    /\ lock' = FALSE
    /\ batch' = NoBatch
    /\ last' = NoAnswer
    /\ UNCHANGED <<alerts, bus, leagues, memberships, packets, runs, hub_inbound,
                   hub_outbound, hub_processed, game_inbound, game_outbound,
                   nodelists, watcher, env>>

-----------------------------------------------------------------------------
(* The game and the directory watcher. *)

\* the game writes a file into its outbound directory; a CREATE event of a
\* packet file in a watched directory schedules _process_new_packet
GameEmit(dir, name, data) ==
    /\ AtAwait
    /\ MayInput
    /\ env' = Fresh(Input(env))
    /\ game_outbound' = [game_outbound EXCEPT ![dir] = WriteFile(@, name, data)]
    /\ watcher' = IF /\ dir \in Configured
                     /\ name \notin Names(game_outbound[dir])
                     /\ parse_packet_filename(name) # None
                  THEN watcher \cup {[dir |-> dir, name |-> name]}
                  ELSE watcher
    /\ last' = NoAnswer
    /\ UNCHANGED <<alerts, bus, leagues, memberships, packets, runs, hub_inbound,
                   hub_outbound, hub_processed, game_inbound, nodelists, task,
                   lock, batch, published>>

\* _process_new_packet(filepath) after its settling sleeps
WatcherIngest(w) ==
    /\ AtAwait
    /\ w \in watcher
    /\ watcher' = watcher \ {w}
    /\ IF w.name \notin Names(game_outbound[w.dir])
       THEN \* the file was moved by the processing service
            UNCHANGED <<packets, hub_outbound, game_outbound>>
       ELSE LET packet_info == parse_packet_filename(w.name)
                content     == FileAt(game_outbound[w.dir], w.name).data
                normalized  == Upper(w.name)
                league      == LeagueByKey(leagues, packet_info.league_id,
                                           packet_info.game_type)
            IN  IF league = None
                THEN \* moved to hub outbound and moved back
                     /\ hub_outbound' = RemoveFile(hub_outbound, normalized)
                     /\ UNCHANGED <<packets, game_outbound>>
                ELSE /\ hub_outbound' =
                           WriteFile(hub_outbound, normalized, content)
                     /\ game_outbound' = [game_outbound EXCEPT ![w.dir] =
                                             RemoveFile(@, w.name)]
                     /\ packets' = Append(packets,
                           UploadedPacket(Len(packets) + 1, normalized,
                                          league.id, packet_info, content))
    /\ last' = NoAnswer
    /\ UNCHANGED <<alerts, bus, leagues, memberships, runs, hub_inbound, hub_processed,
                   game_inbound, nodelists, task, lock, batch, published, env>>

-----------------------------------------------------------------------------
(* The event bus: websocket_service.py. *)

\* the WebSockets: one of /ws/dashboard and two of /ws/client/03
WebSockets == {"d1", "a3", "b3"}

BusKeys == {<<"0", "2">>, <<"0", "3">>}

\* the client_bbs_index its endpoint passes to connect(), empty for None
KeyOf(ws) == IF ws = "d1" THEN <<>> ELSE <<"0", "3">>

\* no publish is in flight
NoPublish ==
    [ kind         |-> "none",     \* broadcast or send_to_client
      event        |-> Event("", <<>>, <<>>, NULL),
      key          |-> <<>>,       \* bbs_index of send_to_client
      attached     |-> FALSE,      \* the iterated set is still in the registry
      size         |-> 0,          \* its size when the iterator was made
      touched      |-> FALSE,      \* it was changed while the loop ran
      start        |-> {},         \* its elements when the loop began
      visited      |-> {},         \* the WebSockets the loop has yielded
      cur          |-> "",         \* the WebSocket whose send is awaited
      disconnected |-> {} ]        \* the local set of failed WebSockets

\* _connections and _client_connections at import; a bbs_index with no
\* WebSocket is not a key of the dict
BusInit ==
    /\ connections = {}
    /\ client_connections = [k \in BusKeys |-> {}]
    /\ pub = NoPublish
    /\ delivered = {}
    /\ wsenv = [seen |-> {}, closed |-> {}, broken |-> {}, dropped |-> {},
                missed |-> {}, raised |-> FALSE, publishes |-> 0]

-----------------------------------------------------------------------------
(* The sequence validator on its own: catalogs of one route (555B, BBS 02 to
   BBS 03) and at most one packet of another, no batch running. *)

\* f"{n:03d}"
Seq3(n) == <<Digits[(n \div 100) + 1], Digits[((n \div 10) % 10) + 1],
             Digits[(n % 10) + 1]>>

RouteName(n) == PacketName(L555, "B", <<"0", "2">>, <<"0", "3">>, Seq3(n))

\* sequence 3 of the route (555F, BBS 02 to the hub)
OtherRouteName == PacketName(L555, "F", <<"0", "2">>, <<"0", "1">>, Seq3(3))

\* 600 .. 999, 0 .. 200: a run across the wrap point with nothing missing
LongRun == (600..999) \cup (0..200)

\* the sets of sequences the route has received
SeqCatalogs ==
    { {1, 2, 4}, {100, 500}, {999, 0}, {998, 999, 0, 1}, {0, 1, 2},
      {2, 4, 100}, {1, 999}, {4, 500, 999}, LongRun }

\* the uploads that follow
SeqUploadRequests == {Request(1, U555B, RouteName(n), Payload(0)) : n \in {3, 250}}

\* the catalog after the uploads of the names, before any batch has run
Uploaded(names) ==
    [i \in 1..Len(names) |->
        UploadedPacket(i, names[i],
                       IF names[i][4] = "B" THEN 1 ELSE 2,
                       parse_packet_filename(names[i]), Payload(0))]

\* the file names of a catalog, in the order of their upload
CatalogNames(S, other) ==
    LET sorted == Sorted(S)
    IN  [i \in 1..Len(sorted) |-> RouteName(sorted[i])]
        \o (IF other THEN <<OtherRouteName>> ELSE <<>>)

InitSeq ==
    /\ \E S \in SeqCatalogs, other \in BOOLEAN :
          \E names \in {CatalogNames(S, other)} :
             /\ packets = Uploaded(names)
             /\ hub_inbound = {[name |-> names[i], data |-> Payload(0)] :
                                  i \in DOMAIN names}
    /\ leagues = <<League(1, L555, "B"), League(2, L555, "F")>>
    /\ memberships = { Membership(1, 1, 1, 2, TRUE),
                       Membership(2, 2, 1, 3, TRUE),
                       Membership(3, 3, 1, 4, FALSE),
                       Membership(4, 1, 2, 2, TRUE) }
    /\ runs = <<>>
    /\ hub_outbound = {}
    /\ hub_processed = {}
    /\ game_inbound = [d \in GameDirs |-> {}]
    /\ game_outbound = [d \in GameDirs |-> {}]
    /\ nodelists = [d \in GameDirs |-> {}]
    /\ task = "scheduled"
    /\ lock = FALSE
    /\ batch = NoBatch
    /\ watcher = {}
    /\ published = <<>>
    /\ last = NoAnswer
    /\ env = [inputs |-> 0, downloads |-> 0, batches |-> 1,
              fresh |-> TRUE, prior |-> FALSE]
    /\ alerts = <<>>
    /\ BusInit

\* validator.check_sequences(); the answer counts the alerts it created
CheckSequences ==
    /\ alerts' = check_sequences(packets, alerts)
    /\ last' = Answer("check_sequences", Len(alerts') - Len(alerts), "")
    /\ UNCHANGED <<leagues, memberships, packets, runs, hub_inbound,
                   hub_outbound, hub_processed, game_inbound, game_outbound,
                   nodelists, task, lock, batch, watcher, published, env, bus>>

\* validator.auto_resolve_alerts(); the answer is resolved_count
AutoResolve ==
    /\ alerts' = auto_resolve_alerts(packets, alerts)
    /\ last' = Answer("auto_resolve",
                      Cardinality({i \in DOMAIN alerts :
                                     alerts'[i].is_resolved /\ ~alerts[i].is_resolved}),
                      "")
    /\ UNCHANGED <<leagues, memberships, packets, runs, hub_inbound,
                   hub_outbound, hub_processed, game_inbound, game_outbound,
                   nodelists, task, lock, batch, watcher, published, env, bus>>

NextSeq ==
    \/ \E r \in SeqUploadRequests :
          upload_packet(r.client, r.url, r.filename, r.content)
    \/ CheckSequences
    \/ AutoResolve

SpecSeq == InitSeq /\ [][NextSeq]_vars

-----------------------------------------------------------------------------
(* The specification. *)

Init ==
    /\ leagues = <<League(1, L555, "B"), League(2, L555, "F")>>
    /\ memberships = { Membership(1, 1, 1, 2, TRUE),
                       Membership(2, 2, 1, 3, TRUE),
                       Membership(3, 3, 1, 4, FALSE),
                       Membership(4, 1, 2, 2, TRUE) }
    /\ packets = <<>>
    /\ runs = <<>>
    /\ hub_inbound = {}
    /\ hub_outbound = {}
    /\ hub_processed = {}
    /\ game_inbound = [d \in GameDirs |-> {}]
    /\ game_outbound = [d \in GameDirs |-> {}]
    /\ nodelists = [d \in GameDirs |-> {}]
    /\ task = "idle"
    /\ lock = FALSE
    /\ batch = NoBatch
    /\ watcher = {}
    /\ published = <<>>
    /\ last = NoAnswer
    /\ env = [inputs |-> 0, downloads |-> 0, batches |-> 0,
              fresh |-> FALSE, prior |-> FALSE]
    /\ alerts = <<>>
    /\ BusInit

Next ==
    \/ \E r \in UploadRequests :
          upload_packet(r.client, r.url, r.filename, r.content)
    \/ \E r \in FailingCommits :
          upload_commit_fails(r.client, r.url, r.filename, r.content)
    \/ manual_trigger
    \/ \E r \in MemberRequests : add_member(r.league, r.client, r.bbs_index)
    \/ \E r \in DownloadRequests :
          download_packet(r.client, r.url, r.filename)
    \/ BatchStart
    \/ StageSubset
    \/ \E st \in {"success", "error", "timeout"} : RunnerReturns(st)
    \/ \E n \in batch.todo : CollectStep(n)
    \/ CollectDone
    \/ IngestDone
    \/ CloseRun
    \/ SweepNext
    \/ BatchFinish
    \/ \E e \in EmitChoices : GameEmit(e.dir, e.name, Payload(env.inputs + 1))
    \/ \E w \in watcher : WatcherIngest(w)

Spec == Init /\ [][Next]_vars

-----------------------------------------------------------------------------
(* The event bus while subscribers come and go: connect, disconnect,
   broadcast and send_to_client of websocket_service.py.  A publish is
   suspended in "await ws.send_text()"; the endpoints' connect and disconnect
   run in between. *)

\* what the subscribers' coming and going leaves alone
pipeline == << leagues, memberships, packets, runs, hub_inbound, hub_outbound,
               hub_processed, game_inbound, game_outbound, nodelists, task,
               lock, batch, watcher, published, last, env, alerts >>

\* the events the pipeline publishes
BusEvents ==
    { Event("packet_available", N_AB, <<"0", "3">>, NULL),
      Event("packet_available", N_AB, <<"0", "2">>, NULL),
      Event("processing_complete", <<>>, <<>>, 1) }

\* broadcast_packet_available goes through send_to_client, the others
\* through broadcast
PublishKind(ev) == IF ev.type = "packet_available" THEN "client" ELSE "broadcast"

\* the set object the for loop of the publish in flight iterates; a set
\* deleted from the dict was emptied first
Iterated(p, conns, clients) ==
    IF p.kind = "broadcast" THEN conns
    ELSE IF p.attached THEN clients[p.key] ELSE {}

\* whether a change of the registries changes the set the loop iterates
Touches(p, conns, clients, conns2, clients2) ==
    \/ p.kind = "broadcast" /\ conns2 # conns
    \/ p.kind = "client" /\ p.attached /\ clients2[p.key] # clients[p.key]

\* the loop's record after connect() or disconnect() ran during the send
Suspended(p, conns, clients, conns2, clients2) ==
    [p EXCEPT !.touched = @ \/ Touches(p, conns, clients, conns2, clients2),
              \* "del _client_connections[client_bbs_index]"
              !.attached = @ /\ ~(p.kind = "client" /\ clients2[p.key] = {})]

\* connect(websocket, client_bbs_index), after accept() returned
Connect(ws) ==
    /\ ws \notin wsenv.seen
    /\ connections' = connections \cup {ws}
    /\ client_connections' =
          IF KeyOf(ws) = <<>> THEN client_connections
          ELSE [client_connections EXCEPT ![KeyOf(ws)] = @ \cup {ws}]
    /\ pub' = Suspended(pub, connections, client_connections,
                        connections', client_connections')
    /\ wsenv' = [wsenv EXCEPT !.seen = @ \cup {ws}]
    /\ UNCHANGED <<delivered, pipeline>>

\* the peer of a WebSocket goes away: sends to it raise from now on
Break(ws) ==
    /\ ws \in wsenv.seen
    /\ ws \notin wsenv.broken
    /\ wsenv' = [wsenv EXCEPT !.broken = @ \cup {ws}]
    /\ UNCHANGED <<connections, client_connections, pub, delivered, pipeline>>

\* disconnect(websocket, client_bbs_index)
disconnect(conns, clients, ws, key) ==
    [ connections        |-> conns \ {ws},
      \* "if client_bbs_index and client_bbs_index in _client_connections"
      client_connections |-> IF key = <<>> THEN clients
                             ELSE [clients EXCEPT ![key] = @ \ {ws}] ]

\* the endpoint's handler sees WebSocketDisconnect and calls disconnect()
Disconnect(ws) ==
    /\ ws \in wsenv.seen
    /\ ws \notin wsenv.closed
    /\ LET after == disconnect(connections, client_connections, ws, KeyOf(ws))
       IN  /\ connections' = after.connections
           /\ client_connections' = after.client_connections
    /\ pub' = Suspended(pub, connections, client_connections,
                        connections', client_connections')
    /\ wsenv' = [wsenv EXCEPT !.closed = @ \cup {ws}, !.broken = @ \cup {ws}]
    /\ UNCHANGED <<delivered, pipeline>>

\* a publish that returns before its loop: "if not _connections: return",
\* "if bbs_index not in _client_connections: return"
NoSubscriber(ev) ==
    IF PublishKind(ev) = "broadcast" THEN connections = {}
    ELSE client_connections[ev.dest] = {}

\* broadcast(message) or send_to_client(bbs_index, message) up to its first
\* "await ws.send_text(message_json)"
Publish(ev) ==
    /\ pub.kind = "none"
    /\ wsenv.publishes < MaxPublishes
    /\ wsenv' = [wsenv EXCEPT !.publishes = @ + 1]
    /\ IF NoSubscriber(ev) THEN pub' = pub
       ELSE \E ws \in Iterated([kind |-> PublishKind(ev), attached |-> TRUE,
                                 key |-> ev.dest],
                                connections, client_connections) :
               LET set == Iterated([kind |-> PublishKind(ev), attached |-> TRUE,
                                    key |-> ev.dest],
                                   connections, client_connections)
               IN  pub' = [ kind         |-> PublishKind(ev),
                            event        |-> ev,
                            key          |-> ev.dest,
                            attached     |-> TRUE,
                            size         |-> Cardinality(set),
                            touched      |-> FALSE,
                            start        |-> set,
                            visited      |-> {ws},
                            cur          |-> ws,
                            disconnected |-> {} ]
    /\ UNCHANGED <<connections, client_connections, delivered, pipeline>>

\* "for ws in disconnected: await disconnect(ws)" of broadcast, and
\* "await disconnect(ws, bbs_index)" of send_to_client
RECURSIVE CleanUp(_, _, _, _)
CleanUp(conns, clients, failed, key) ==
    IF failed = {} THEN [connections |-> conns, client_connections |-> clients]
    ELSE LET ws    == CHOOSE w \in failed : TRUE
             after == disconnect(conns, clients, ws, key)
         IN  CleanUp(after.connections, after.client_connections,
                     failed \ {ws}, key)

\* the awaited send_text returns or raises, and the loop goes on to the
\* next WebSocket, to its end, or fails in the for statement
SendReturns ==
    /\ pub.kind # "none"
    /\ UNCHANGED pipeline
    /\ LET failed   == pub.cur \in wsenv.broken
           failures == IF failed THEN pub.disconnected \cup {pub.cur}
                       ELSE pub.disconnected
           set      == Iterated(pub, connections, client_connections)
           rest     == set \ pub.visited
           \* the subscribers the loop leaves without an attempt
           skipped  == (pub.start \cap set) \ pub.visited
           tidy     == CleanUp(connections, client_connections, failures,
                               IF pub.kind = "client" THEN pub.key ELSE <<>>)
       IN  /\ delivered' = IF failed THEN delivered
                           ELSE delivered \cup {<<pub.cur, pub.event>>}
           /\ \/ \* RuntimeError: Set changed size during iteration
                 /\ Cardinality(set) # pub.size
                 /\ pub' = NoPublish
                 /\ wsenv' = [wsenv EXCEPT !.raised = TRUE,
                                           !.dropped = @ \cup failures,
                                           !.missed = @ \cup skipped]
                 /\ UNCHANGED <<connections, client_connections>>
              \/ \* the iterator yields the next WebSocket
                 /\ Cardinality(set) = pub.size
                 /\ \E ws \in rest :
                       pub' = [pub EXCEPT !.visited = @ \cup {ws}, !.cur = ws,
                                          !.disconnected = failures]
                 /\ wsenv' = wsenv
                 /\ UNCHANGED <<connections, client_connections>>
              \/ \* the iterator is exhausted; over a set that was changed and
                 \* has its old size again it may be so before every element
                 \* was yielded
                 /\ Cardinality(set) = pub.size
                 /\ rest = {} \/ pub.touched
                 /\ pub' = NoPublish
                 /\ connections' = tidy.connections
                 /\ client_connections' = tidy.client_connections
                 /\ wsenv' = [wsenv EXCEPT !.dropped = @ \cup failures,
                                           !.missed = @ \cup skipped]

NextBus ==
    \/ \E ws \in WebSockets : Connect(ws)
    \/ \E ws \in WebSockets : Break(ws)
    \/ \E ws \in WebSockets : Disconnect(ws)
    \/ \E ev \in BusEvents : Publish(ev)
    \/ SendReturns

SpecBus == Init /\ [][NextBus]_vars

-----------------------------------------------------------------------------
(* Steps and callers, as the properties below name them. *)

\* the step is upload_packet answering request r
UploadStep(r) ==
    /\ last'.op = "upload"
    /\ upload_packet(r.client, r.url, r.filename, r.content)

\* the step is download_packet answering request r
DownloadStep(r) ==
    /\ last'.op = "download"
    /\ download_packet(r.client, r.url, r.filename)

\* a call of trigger(): by an accepted upload, or by the operator endpoint
TriggerStep ==
    \/ manual_trigger
    \/ \E r \in UploadRequests :
          /\ UploadStep(r)
          /\ UploadOutcome(r.client, r.url, r.filename, r.content) = "received"

\* the body of the batch pipeline is executing (or suspended in an await)
Running == task \notin {"idle", "scheduled"}

\* the source and the dest byte of <league><game><src><dst>.<seq>
SourceByte(filename) == SubSeq(Upper(filename), 5, 6)

DestByte(filename) == SubSeq(Upper(filename), 7, 8)

\* the leagues table rows a URL league id names
UrlLeagues(url) ==
    {i \in DOMAIN leagues :
        <<leagues[i].league_id, leagues[i].game_type>> = parse_league_id(url)}

\* the caller has an active membership in one of the leagues whose bbs_index,
\* as two uppercase hex digits, is the byte
MemberAs(client, league_ids, byte) ==
    \E m \in memberships : /\ m.client_id = client
                           /\ m.is_active
                           /\ m.league_id \in league_ids
                           /\ Hex02X(m.bbs_index) = byte

\* the file name is a packet name of the league and game of the URL
NamesUrlLeague(url, filename) ==
    LET info == parse_packet_filename(filename)
    IN  /\ info # None
        /\ <<info.league_id, info.game_type>> = parse_league_id(url)

-----------------------------------------------------------------------------
(* C1: at most one execution of the batch pipeline body is in flight at any
   time (the lock is held exactly while the one body runs, and at most one
   ProcessingRun is open); a trigger() issued while a batch is in flight, by
   an upload or by the operator, starts no second batch and does not wait:
   the call returns with the running batch where it was. *)
OneBodyInFlight ==
    /\ lock <=> Running
    /\ Cardinality({i \in DOMAIN runs : runs[i].status = "running"}) <= 1

C1_SingleBatch ==
    [][ /\ OneBodyInFlight'
        /\ (TriggerStep /\ task # "idle") => UNCHANGED <<task, lock, batch, runs>>
        /\ (TriggerStep /\ task = "idle") =>
              (task' = "scheduled" /\ UNCHANGED <<lock, batch, runs>>)
      ]_vars

\* a trigger was answered while the body of a batch was in flight
C1_TriggerWhileRunning ==
    /\ last.op = "trigger"
    /\ last.detail = "skipped"
    /\ Running
    /\ lock

-----------------------------------------------------------------------------
(* C2: an upload whose caller has no active membership in the URL's league
   whose bbs_index, as two uppercase hex digits, is the source byte of the
   file name, creates no Packet row, writes no hub inbound file and does not
   call trigger(); it is never accepted, and it is answered 403 once the file
   name, the URL and the body have passed the checks that come first. *)
PassesValidation(r) ==
    /\ ~IsNodelistName(Upper(r.filename))
    /\ NamesUrlLeague(r.url, r.filename)
    /\ r.content # <<>>

C2_UnauthorizedUpload ==
    [][ \A r \in UploadRequests :
          ( /\ UploadStep(r)
            /\ ~MemberAs(r.client, UrlLeagues(r.url), SourceByte(r.filename)) )
          => /\ last'.status # 200
             /\ PassesValidation(r) => last'.status = 403
             /\ UNCHANGED <<packets, hub_inbound, task>>
             /\ env'.batches = env.batches
      ]_vars

\* an upload was refused for the membership or for the source byte
C2_UploadRefused ==
    /\ last.op = "upload"
    /\ last.status = 403
    /\ last.detail \in {"not_member", "bbs_mismatch"}

-----------------------------------------------------------------------------
(* C3: a download of a packet (not a nodelist) is served, and stamps
   downloaded_at / is_downloaded, only for a caller with an active membership
   in the league of the packet row whose bbs_index is the dest byte of the
   file name; any other caller asking for a packet that has a row is answered
   403, and no row changes. *)
C3_Allowed(r) ==
    LET row == DownloadRow(Upper(r.filename))
    IN  /\ row # NULL
        /\ MemberAs(r.client, {packets[row].league_id}, DestByte(r.filename))

C3_DownloadByDestOnly ==
    [][ \A r \in DownloadRequests :
          ( /\ DownloadStep(r)
            /\ ~IsNodelistName(Upper(r.filename)) )
          => LET row == DownloadRow(Upper(r.filename))
             IN  /\ (last'.status = 200 \/ packets' # packets) => C3_Allowed(r)
                 /\ last'.status = 200 =>
                       /\ packets'[row].downloaded_at # NULL
                       /\ packets'[row].is_downloaded
                 /\ ( /\ row # NULL
                      /\ NamesUrlLeague(r.url, Upper(r.filename))
                      /\ ~C3_Allowed(r) )
                    => (last'.status = 403 /\ packets' = packets)
      ]_vars

\* a download of an existing packet was refused to a caller it is not for
C3_DownloadRefused ==
    /\ last.op = "download"
    /\ last.status = 403
    /\ last.detail = "dest_mismatch"
    /\ \E i \in DOMAIN packets : packets[i].downloaded_at = NULL

-----------------------------------------------------------------------------
(* C4: when the command runner returns error or timeout for a game subset,
   the step sets processed_at on no packet and moves no hub inbound file to
   the processed directory; the packets of the subset keep processed_at
   unset for the rest of that batch and until the next batch starts, and the
   next batch selects every packet whose processed_at is unset. *)
RunnerFails ==
    /\ task = "run_game"
    /\ \E status \in {"error", "timeout"} : RunnerReturns(status)

\* the packets of the subsets of the batch in flight whose command failed
FailedPackets ==
    UNION {Range(Subset(batch.sel, game)) :
              game \in {g \in {"BRE", "FE"} :
                           batch.results[g] \in {"error", "timeout"}}}

C4_FailedSubsetRetried ==
    [][ /\ RunnerFails =>
              /\ UNCHANGED <<packets, hub_inbound, hub_processed>>
              /\ Range(Subset(batch.sel, batch.game)) \subseteq FailedPackets'
        /\ \A i \in FailedPackets' : packets'[i].processed_at = NULL
        /\ ~Running' =>
              \A i \in DOMAIN packets :
                 packets'[i].processed_at = packets[i].processed_at
        /\ (task = "scheduled" /\ Running') =>
              \A i \in DOMAIN packets :
                 packets[i].processed_at = NULL => i \in Range(batch'.sel)
      ]_vars

-----------------------------------------------------------------------------
(* C5: if the command runner returned error or timeout for a game subset of
   a batch, the ProcessingRun of the batch is closed with status error and
   the error is recorded on the run. *)
C5_FailedRunClosedAsError ==
    [][ ( /\ task = "close"
          /\ task' = "sweep"
          /\ \E g \in {"BRE", "FE"} : batch.results[g] \in {"error", "timeout"} )
        => /\ runs'[batch.run].status = "error"
           /\ runs'[batch.run].error_message # NULL
      ]_vars

-----------------------------------------------------------------------------
(* C6: a file name that was uploaded, however often, has exactly one Packet
   row: a repeated upload replaces the row instead of adding one. *)
C6_OneRowPerUploadedName ==
    \A r \in UploadRequests :
       Cardinality({i \in DOMAIN packets :
                       packets[i].filename = Upper(r.filename)}) <= 1

-----------------------------------------------------------------------------
(* C7: outbound collection, in a batch and in the outbound sweep, adds no
   Packet row for a normalized file name that has one: the existing row is
   updated in place (source, dest, sequence, size, payload, checksum, run id,
   processed_at), its downloaded_at is cleared and its is_downloaded set to
   false, every other row is left alone, and the hub outbound directory
   holds the new file under the normalized name and no case variant of it;
   a name with no row gets exactly one. *)
CollectsPacket(name) ==
    /\ task = "collect"
    /\ CollectCase(name) = "packet"
    /\ CollectStep(name)

RowsNamed(rows, filename) == {i \in DOMAIN rows : rows[i].filename = filename}

C7_CollectionUpserts ==
    [][ \A name \in batch.todo :
          CollectsPacket(name) =>
            LET normalized == Upper(name)
                content    == FileAt(game_outbound[batch.dir], name).data
                info       == parse_packet_filename(name)
                existing   == PacketByName(packets, normalized)
            IN  /\ RowsNamed(packets', normalized) =
                      IF existing = NULL THEN {Len(packets) + 1}
                      ELSE RowsNamed(packets, normalized)
                /\ Len(packets') =
                      IF existing = NULL THEN Len(packets) + 1 ELSE Len(packets)
                /\ \A i \in DOMAIN packets : i # existing => packets'[i] = packets[i]
                /\ existing # NULL =>
                      /\ packets'[existing].source_bbs_index = info.source_bbs_index
                      /\ packets'[existing].dest_bbs_index = info.dest_bbs_index
                      /\ packets'[existing].sequence_number = info.sequence_number
                      /\ packets'[existing].file_size = Len(content)
                      /\ packets'[existing].file_data = content
                      /\ packets'[existing].checksum = Sha256(content)
                      /\ packets'[existing].processing_run_id \in {batch.run, 0}
                      /\ packets'[existing].processing_run_id # NULL
                      /\ packets'[existing].processed_at = batch.no
                      /\ packets'[existing].downloaded_at = NULL
                      /\ ~packets'[existing].is_downloaded
                /\ {f \in hub_outbound' : Upper(f.name) = normalized} =
                      {[name |-> normalized, data |-> content]}
      ]_vars

\* the game emitted the same name twice, collection registered it twice, and
\* the name has one row, which holds the second payload
C7_ReemittedRowUpdated ==
    /\ Cardinality({k \in DOMAIN published :
                       /\ published[k].type = "packet_available"
                       /\ published[k].name = Upper(n_hb)}) = 2
    /\ Cardinality(RowsNamed(packets, Upper(n_hb))) = 1
    /\ \E i \in RowsNamed(packets, Upper(n_hb)) :
          /\ packets[i].file_data = Payload(2)
          /\ [name |-> Upper(n_hb), data |-> Payload(2)] \in hub_outbound

-----------------------------------------------------------------------------
(* C8: a packet P addressed to member M is known to M by its file name,
   the key of the entries GET /leagues/{id}/packets returns: right after a
   download of P that M was served, M's list with unread=true holds no
   entry with the file name of P. *)
Served(r) == DownloadStep(r) /\ last'.status = 200

\* the file names of the PacketInfo entries of the answer
ListedNames(client, url, unread) ==
    {packets[i].filename : i \in list_packets(client, url, unread)}

C8_UnreadExcludesDownloaded ==
    [][ \A r \in DownloadRequests :
          Served(r) =>
             Upper(r.filename) \notin ListedNames(r.client, r.url, TRUE)'
      ]_vars

-----------------------------------------------------------------------------
(* C9: when collection meets a nodelist file of a league, then afterwards
   every active membership of the league has exactly one Packet row with
   (normalized nodelist name, league, dest = the member's BBS index): a
   member with no such row gets one with source "00", sequence 0, its own
   dest_client_id and the processed flag set; a member with a row has that
   row updated (payload, checksum, downloaded_at cleared); and nothing else
   is inserted or changed. *)
CollectsNodelist(name) ==
    /\ task = "collect"
    /\ CollectCase(name) = "nodelist"
    /\ CollectStep(name)

MemberRows(rows, filename, m) ==
    {i \in DOMAIN rows : /\ rows[i].filename = filename
                         /\ rows[i].league_id = m.league_id
                         /\ rows[i].dest_bbs_index = Hex02X(m.bbs_index)}

C9_NodelistFanout ==
    [][ \A name \in batch.todo :
          CollectsNodelist(name) =>
            LET normalized == Upper(name)
                number     == SubSeq(normalized, 9, Len(normalized))
                content    == FileAt(game_outbound[batch.dir], name).data
                members    == {m \in memberships :
                                 /\ m.is_active
                                 /\ leagues[m.league_id].league_id = number
                                 /\ leagues[m.league_id].game_type =
                                       GameLetter(batch.game)}
                had(m)     == MemberRows(packets, normalized, m)
                has(m)     == MemberRows(packets', normalized, m)
            IN  /\ \A m \in members :
                      /\ Cardinality(has(m)) = 1
                      /\ had(m) \subseteq has(m)
                      /\ \A i \in has(m) :
                            /\ packets'[i].file_data = content
                            /\ packets'[i].checksum = Sha256(content)
                            /\ packets'[i].downloaded_at = NULL
                            /\ ~packets'[i].is_downloaded
                            /\ i \notin DOMAIN packets =>
                                  /\ packets'[i].source_bbs_index = <<"0", "0">>
                                  /\ packets'[i].sequence_number = 0
                                  /\ packets'[i].dest_client_id = m.client_id
                                  /\ packets'[i].is_processed
                                  /\ packets'[i].processed_at # NULL
                /\ Len(packets') =
                      Len(packets) + Cardinality({m \in members : had(m) = {}})
                /\ \A i \in DOMAIN packets :
                      (\A m \in members : i \notin had(m)) =>
                         packets'[i] = packets[i]
      ]_vars

\* the nodelist was collected twice and client 3 became a member in between:
\* the rows of clients 1 and 2 hold the second payload, like the row that the
\* second collection inserted for client 3
C9_LateMemberGetsRow ==
    /\ Cardinality({k \in DOMAIN published :
                       published[k].type = "nodelist_available"}) = 2
    /\ \E i, j, k \in DOMAIN packets :
          /\ i < j /\ j < k
          /\ packets[i].filename = NL_555
          /\ packets[j].filename = NL_555
          /\ packets[k].filename = NL_555
          /\ packets[k].dest_client_id = 3
          /\ packets[i].file_data = packets[k].file_data
          /\ packets[j].file_data = packets[k].file_data

-----------------------------------------------------------------------------
(* C10, as the specification words it: a batch that follows another with no
   accepted upload and no game output since the earlier batch began sets no
   processed_at, adds no Packet row, leaves the hub outbound directory as it
   is and does not run the game. *)
BatchStep == task # "idle" /\ (task' # task \/ batch' # batch)

BackToBack ==
    /\ env.batches >= 2
    /\ ~env.fresh
    /\ task # "scheduled" => (Running /\ ~env.prior)

NoOpStep ==
    /\ Len(packets') = Len(packets)
    /\ \A i \in DOMAIN packets :
          packets'[i].processed_at = packets[i].processed_at
    /\ hub_outbound' = hub_outbound
    /\ task' # "run_game"

C10_SecondBatchNoOp == [][ (BatchStep /\ BackToBack) => NoOpStep ]_vars

(* C10: a batch that follows another with no accepted upload and no game
   output since the earlier batch began, and that finds no Packet row with
   processed_at unset, sets no processed_at, adds no Packet row, leaves the
   hub outbound directory as it is and does not run the game; if it finds
   such rows when it starts, it opens a run and selects every one of them. *)
NothingUnprocessed == \A i \in DOMAIN packets : packets[i].processed_at # NULL

C10_SecondBatchNoOpWhenNothingPending ==
    [][ (BatchStep /\ BackToBack) =>
           /\ NothingUnprocessed => NoOpStep
           /\ (task = "scheduled" /\ ~NothingUnprocessed) =>
                 /\ task' = "stage"
                 /\ Len(runs') = Len(runs) + 1
                 /\ \A i \in DOMAIN packets :
                       packets[i].processed_at = NULL => i \in Range(batch'.sel)
      ]_vars

\* the second batch, with nothing new and every row processed, is in its
\* outbound sweep and opened no run
C10_QuietSecondBatch ==
    /\ BackToBack
    /\ task = "sweep"
    /\ batch.run = NULL
    /\ packets # <<>>
    /\ NothingUnprocessed

-----------------------------------------------------------------------------
(* C11: the processed marker of a Packet row goes from unset to set only in
   step 3 of a game subset whose command succeeded (mark processed and
   archive), and its downloaded marker goes from unset to set only in a
   download that is served. *)
C11_MarkersSetOnlyByTheirPhase ==
    [][ \A i \in DOMAIN packets :
          /\ (packets[i].processed_at = NULL /\ packets'[i].processed_at # NULL)
                => /\ task = "run_game"
                   /\ task' = "collect"
                   /\ i \in Range(Subset(batch.sel, batch.game))
          /\ (packets[i].downloaded_at = NULL /\ packets'[i].downloaded_at # NULL)
                => (last'.op = "download" /\ last'.status = 200)
      ]_vars

-----------------------------------------------------------------------------
(* C12: a ProcessingRun row is created with status running by a batch that
   holds the lock, its status changes only from running, to completed or
   error, and does so before the batch releases the lock; a row is never
   removed or set back to running, and each batch that selects packets adds
   a row of its own. *)
C12_RunLifecycle ==
    [][ /\ Len(runs') >= Len(runs)
        /\ \A i \in DOMAIN runs :
              runs'[i].status # runs[i].status =>
                 /\ runs[i].status = "running"
                 /\ runs'[i].status \in {"completed", "error"}
                 /\ lock /\ lock'
                 /\ batch.run = i
        /\ \A i \in DOMAIN runs' \ DOMAIN runs :
              /\ i = Len(runs) + 1
              /\ runs'[i].status = "running"
              /\ task = "scheduled" /\ lock'
              /\ batch'.run = i
        /\ (lock /\ ~lock') =>
              \A i \in DOMAIN runs' : runs'[i].status \in {"completed", "error"}
        /\ (task = "scheduled" /\ task' = "stage") => Len(runs') = Len(runs) + 1
      ]_vars

\* two batches have run and released the lock: each left a closed run
C12_TwoClosedRuns ==
    /\ Len(runs) = 2
    /\ ~lock
    /\ \A i \in DOMAIN runs : runs[i].status = "completed"

-----------------------------------------------------------------------------
(* The validator's view of a catalog, as the properties C13 .. C16 name it. *)

\* the records find_gaps returns with a given received_sequence
RecordsAt(gaps, n) == SelectSeq(gaps, LAMBDA g : g.received_sequence = n)

\* the gap records of a pair c < n of consecutive received sequences
PairRecords(c, n) ==
    {[expected_sequence |-> e, received_sequence |-> n, gap_size |-> n - c - 1] :
        e \in (c + 1)..(n - 1)}

\* the route of the catalogs
MainRoute == Route(1, <<"0", "2">>, <<"0", "3">>)

-----------------------------------------------------------------------------
(* C13: for consecutive received sequences c < n of a route, when find_gaps
   does not reorder around the wrap point and n - c - 1 lies strictly between
   0 and 500, find_gaps returns exactly n - c - 1 records for the pair, one
   per missing index c+1 .. n-1, each with received_sequence n and that
   gap_size; a pair with no missing index gets none.  {1,2,4} gives the one
   record (3, 4, 1) and {100,500} gives 399 records of gap_size 399. *)
C13_OneRecordPerMissingIndex ==
    /\ \A route \in Range(Routes(packets)) :
          \E sorted \in {Sorted(RouteSequences(packets, route))} :
          \E gaps \in {find_gaps(RouteSequences(packets, route))} :
             (Len(sorted) >= 2 /\ ~Reorders(sorted)) =>
                /\ \A i \in 1..(Len(sorted) - 1) :
                      LET c == sorted[i]
                          n == sorted[i + 1]
                          at == RecordsAt(gaps, n)
                      IN  IF n - c - 1 > 0 /\ n - c - 1 < WRAP_DETECTION_THRESHOLD
                          THEN /\ Len(at) = n - c - 1
                               /\ Range(at) = PairRecords(c, n)
                          ELSE at = <<>>
                /\ \A k \in DOMAIN gaps :
                      \E i \in 2..Len(sorted) : gaps[k].received_sequence = sorted[i]
    /\ find_gaps({1, 2, 4})
          = <<[expected_sequence |-> 3, received_sequence |-> 4, gap_size |-> 1]>>
    /\ \E gaps \in {find_gaps({100, 500})} :
          /\ Len(gaps) = 399
          /\ \A k \in DOMAIN gaps : gaps[k].gap_size = 399

\* check_sequences has run on the catalog {100, 500} and its 399 alerts exist
C13_GapOf399Recorded ==
    /\ last.op = "check_sequences"
    /\ RouteSequences(packets, MainRoute) = {100, 500}
    /\ Len(alerts) = 399
    /\ \A k \in DOMAIN alerts :
          /\ alerts[k].expected_sequence = 100 + k
          /\ alerts[k].received_sequence = 500
          /\ alerts[k].gap_size = 399

-----------------------------------------------------------------------------
(* C14: a route whose received sequences run consecutively across the wrap
   point (..., 998, 999, 0, 1, ...), in particular the set {999, 0}, produces
   no gap record: the step from 999 to 0 is never reported as a gap. *)

\* S holds 999 and 0 and is one run a .. 999, 0 .. b of the circular space
RunsAcrossWrap(S) ==
    \E sorted \in {Sorted(S)} :
       /\ Len(sorted) >= 2
       /\ sorted[1] = 0
       /\ sorted[Len(sorted)] = SEQUENCE_RANGE - 1
       /\ Cardinality({i \in 1..(Len(sorted) - 1) : sorted[i + 1] # sorted[i] + 1}) <= 1

C14_NoGapAcrossWrap ==
    \A route \in Range(Routes(packets)) :
       RunsAcrossWrap(RouteSequences(packets, route))
          => find_gaps(RouteSequences(packets, route)) = <<>>

-----------------------------------------------------------------------------
(* C15: after any sequence of uploads, check_sequences runs and auto_resolve
   runs, no two unresolved SequenceAlert rows share the same (league, source,
   dest, expected sequence); and check_sequences run twice with no catalog
   change in between creates no alert in its second run. *)

AlertKey(a) == <<a.league_id, a.source_bbs_index, a.dest_bbs_index, a.expected_sequence>>

Unresolved(rows) == {i \in DOMAIN rows : ~rows[i].is_resolved}

C15_NoDuplicateUnresolvedAlert ==
    /\ Cardinality({AlertKey(alerts[i]) : i \in Unresolved(alerts)})
          = Cardinality(Unresolved(alerts))
    /\ \E once \in {check_sequences(packets, alerts)} :
          check_sequences(packets, once) = once

\* a check_sequences run that found open alerts in place and created none
C15_SecondRunCreatesNone ==
    /\ last.op = "check_sequences"
    /\ last.status = 0
    /\ Unresolved(alerts) # {}

-----------------------------------------------------------------------------
(* C16: auto_resolve marks as resolved exactly the unresolved alerts for which
   a packet with the alert's (league, source, dest) and sequence_number =
   expected sequence exists in the catalog, and leaves every other alert
   (already resolved, or still missing its packet) unchanged; so after the
   missing packet of an open alert is uploaded, one auto_resolve run resolves
   that alert. *)
C16_AutoResolveExactlyReceived ==
    [][ last'.op = "auto_resolve" =>
          \E received \in {{<<RouteOf(packets[j]), packets[j].sequence_number>> :
                               j \in DOMAIN packets}} :
             /\ DOMAIN alerts' = DOMAIN alerts
             /\ \A i \in DOMAIN alerts :
                   IF /\ ~alerts[i].is_resolved
                      /\ <<RouteOf(alerts[i]), alerts[i].expected_sequence>> \in received
                   THEN /\ alerts'[i].is_resolved
                        /\ alerts'[i].resolved_at # NULL
                        /\ [alerts'[i] EXCEPT !.is_resolved = FALSE, !.resolved_at = NULL]
                              = alerts[i]
                   ELSE alerts'[i] = alerts[i] ]_vars

\* the alert of sequence 3 resolved by the upload of 555B0203.003, another open
C16_UploadedGapResolved ==
    /\ last.op = "auto_resolve"
    /\ last.status = 1
    /\ \E i \in DOMAIN alerts : /\ alerts[i].is_resolved
                                /\ alerts[i].expected_sequence = 3
                                /\ RouteOf(alerts[i]) = MainRoute
    /\ \E i \in DOMAIN alerts : ~alerts[i].is_resolved

-----------------------------------------------------------------------------
(* C17: when a send to one subscriber fails during a publish, the publish
   still attempts every other subscriber of the channel, the failed
   subscriber is removed from every subscriber set so that no later publish
   attempts it again, and no exception reaches the publisher; also when
   subscribers connect or disconnect while the publish is suspended in a
   send. *)

\* every WebSocket registered in some subscriber set
Registered == connections \cup UNION {client_connections[k] : k \in BusKeys}

C17_SendFailureContained ==
    /\ ~wsenv.raised
    /\ wsenv.missed = {}
    /\ pub.kind = "none" => wsenv.dropped \cap Registered = {}

-----------------------------------------------------------------------------
(* C18: a subscriber registered on the per-destination channel under
   bbs_index k is delivered only events that match k: never a
   packet_available event whose dest differs from k, and never an event
   published on the dashboard channel. *)
C18_OnlyMatchingEvents ==
    \A d \in delivered :
       KeyOf(d[1]) # <<>> =>
          /\ PublishKind(d[2]) = "client"
          /\ d[2].dest = KeyOf(d[1])

-----------------------------------------------------------------------------
(* C19: upload is atomic between payload and row: if committing the Packet
   row fails or the upload is cancelled after the payload was written to the
   hub inbound directory, the on-disk copy is deleted, so that after any
   upload attempt an inbound file written by it exists if and only if its
   Packet row is committed. *)
C19_PayloadAndRowTogether ==
    [][ last'.op = "upload" =>
          /\ hub_inbound' # hub_inbound => Len(packets') = Len(packets) + 1
          /\ Len(packets') = Len(packets) + 1 =>
                \E f \in hub_inbound' :
                   /\ f.name = packets'[Len(packets')].filename
                   /\ f.data = packets'[Len(packets')].file_data ]_vars

-----------------------------------------------------------------------------
(* C20: every Packet row with processed_at set and a processing_run_id R
   refers to a ProcessingRun row R that exists and has status completed or
   error. *)
C20_ProcessedRefersToClosedRun ==
    \A i \in DOMAIN packets :
       (packets[i].processed_at # NULL /\ packets[i].processing_run_id # NULL)
          => /\ packets[i].processing_run_id \in DOMAIN runs
             /\ runs[packets[i].processing_run_id].status \in {"completed", "error"}

-----------------------------------------------------------------------------
(* C21: in every state another handler can observe (between the suspension
   points of the batch processor and of the watcher), every file name in the
   hub outbound directory has a Packet row with that uppercase filename in
   the catalog. *)
C21_OutboundFilesHaveRows ==
    \A f \in hub_outbound :
       \E i \in DOMAIN packets : packets[i].filename = Upper(f.name)

\* a packet file collected from the game stands in hub outbound with its row
C21_CollectedFileWithRow ==
    /\ hub_outbound # {}
    /\ \E e \in DOMAIN published : published[e].type = "packet_available"

-----------------------------------------------------------------------------
(* C22: for every Packet row that is not a nodelist row, created or updated
   by upload, outbound collection or the watcher, parsing its filename
   yields exactly the league number and game type of the row's league and
   the row's source_bbs_index, dest_bbs_index and sequence_number. *)
C22_FilenameAgreesWithRow ==
    \A i \in DOMAIN packets :
       ~IsNodelistName(packets[i].filename) =>
          LET info   == parse_packet_filename(packets[i].filename)
              league == leagues[packets[i].league_id]
          IN  /\ info # None
              /\ info.league_id = league.league_id
              /\ info.game_type = league.game_type
              /\ info.source_bbs_index = packets[i].source_bbs_index
              /\ info.dest_bbs_index = packets[i].dest_bbs_index
              /\ info.sequence_number = packets[i].sequence_number

\* the catalog holds an uploaded row and a row registered from the game
C22_UploadedAndCollectedRows ==
    /\ \E i \in DOMAIN packets : packets[i].filename = N_AB
    /\ \E i \in DOMAIN packets : packets[i].filename = Upper(n_hb)

-----------------------------------------------------------------------------
(* C23: after process_game_batch succeeds for an uploaded packet whose
   destination is another member (not the hub), the packet file exists in
   the hub processed directory and a file with the same filename exists in
   the hub outbound directory, whatever the game emits. *)
C23_DirectRouting ==
    [][ (task = "ingest" /\ task' # "ingest"
           /\ batch.results[batch.game] = "success") =>
          \A i \in Range(Subset(batch.sel, batch.game)) :
             Upper(packets[i].dest_bbs_index) # hub_index =>
                /\ packets[i].filename \in Names(hub_processed')
                /\ packets[i].filename \in Names(hub_outbound') ]_vars

-----------------------------------------------------------------------------
(* C24: a packet gets processed_at set by a batch only if, in that batch,
   its on-disk payload was copied into the inbound directory of its own
   (league, game) and the command of that (league, game) returned success
   afterwards, also when the selection holds packets of several leagues of
   one game and when a packet's file is missing from hub inbound. *)
C24_ProcessedOnlyIfStagedAndRun ==
    [][ \A i \in DOMAIN packets :
           (packets[i].processed_at = NULL /\ packets'[i].processed_at # NULL
              /\ task = "run_game") =>
              LET league == leagues[packets[i].league_id]
                  own    == Key(league.league_id, league.game_type)
              IN  /\ task' = "collect"
                  /\ batch.dir = own
                  /\ \E f \in game_inbound[own] :
                        /\ f.name = packets[i].filename
                        /\ f.data = packets[i].file_data ]_vars

-----------------------------------------------------------------------------
\* the CREATE events the watcher can hold: the emitted names it accepts
WatchEvents ==
    {[dir |-> e.dir, name |-> e.name] :
        e \in {c \in EmitChoices : parse_packet_filename(c.name) # None}}

\* the watcher holds the CREATE event of a file that the batch processor
\* has moved away before the watcher read it
Raced(w) == w \in watcher /\ w.name \notin Names(game_outbound[w.dir])

RowsOf(filename) == {i \in DOMAIN packets : packets[i].filename = filename}

(* C25: if the batch processor moves a game-outbound file away after the
   watcher received its CREATE event but before the watcher reads it, the
   watcher commits no Packet row and moves no file, and the catalog ends
   with exactly one row for that filename, under every interleaving of the
   suspension points of the two. *)
C25_RaceLeavesOneRow ==
    \A w \in WatchEvents :
       [](Raced(w) => [](Cardinality(RowsOf(Upper(w.name))) = 1))

-----------------------------------------------------------------------------
(* C26: watcher ingest is an upsert keyed on the normalized filename: when
   the watcher ingests a file whose uppercase filename already has a Packet
   row, it updates that row and inserts none, so it never leaves two rows
   with the same filename. *)
C26_WatcherUpserts ==
    [][ \A w \in watcher :
           (/\ watcher' = watcher \ {w}
            /\ game_outbound'[w.dir] # game_outbound[w.dir]
            /\ \E i \in DOMAIN packets : packets[i].filename = Upper(w.name)) =>
              /\ Len(packets') = Len(packets)
              /\ Cardinality({i \in DOMAIN packets' :
                                packets'[i].filename = Upper(w.name)}) = 1 ]_vars

-----------------------------------------------------------------------------
(* C27: every time a packet row becomes available from a game outbound
   directory, registered by outbound collection or by the watcher, a
   packet_available(filename, dest) event is published to the channel of
   the packet's dest after the row is committed. *)
C27_AvailableIsPublished ==
    [][ \A d \in GameDirs : \A f \in game_outbound[d] :
           (/\ f.name \notin Names(game_outbound'[d])
            /\ packets' # packets) =>
              published' = Append(published,
                  Event("packet_available", Upper(f.name),
                        parse_packet_filename(f.name).dest_bbs_index, NULL)) ]_vars

-----------------------------------------------------------------------------
(* Progress of the batch task.  The event loop runs every task that is ready,
   and run_game_process() returns, with a result or on its timeout: each
   step of process_batch() that is enabled is eventually taken.  Requests,
   emissions of the game and file events are under no such obligation. *)
BatchSteps ==
    \/ BatchStart
    \/ StageSubset
    \/ \E st \in {"success", "error", "timeout"} : RunnerReturns(st)
    \/ CollectDone
    \/ IngestDone
    \/ CloseRun
    \/ SweepNext
    \/ BatchFinish

\* the loop of collect_outbound_packets() goes on to its next file: this is
\* WF_vars(\E n \in batch.todo : CollectStep(n)), with ENABLED written out
\* (CollectStep(n) has a successor exactly when n is still to be visited)
CollectProgress ==
    \/ []<>~(task = "collect" /\ batch.todo # {})
    \/ []<><<\E n \in batch.todo : CollectStep(n)>>_vars

SpecLive ==
    Init /\ [][Next]_vars /\ WF_vars(BatchSteps) /\ CollectProgress

\* the command runner has returned something other than success
RunnerFailed == \E g \in {"BRE", "FE"} : batch.results[g] \in {"error", "timeout"}

\* row i was created by an upload that answered 200
UploadedRow(i) ==
    /\ i \in DOMAIN packets
    /\ packets[i].filename \notin {Upper(e.name) : e \in EmitChoices}

(* C28: every packet whose upload returned success is eventually marked
   processed, provided the command runner returns success, even when the
   trigger() call of that upload was a no-op because a batch was already in
   flight and no later upload or manual trigger happens. *)
C28_UploadedEventuallyProcessed ==
    ([]~RunnerFailed) =>
       \A i \in 1..MaxInputs :
          UploadedRow(i) ~> (UploadedRow(i) /\ packets[i].processed_at # NULL)

-----------------------------------------------------------------------------
(* C29: a Packet row registered from a game outbound directory, by outbound
   collection or by the watcher, is never selected as unprocessed inbound
   work by a later batch: it belongs to no batch's phase-1 selection and
   never causes the game command to be run.  The names the game emits have
   the hub as their source, so no upload creates a row of such a name. *)
C29_EmittedRowsNeverSelected ==
    [][ (task = "scheduled" /\ task' = "stage") =>
           \A i \in Range(batch'.sel) :
              packets[i].filename \notin {Upper(e.name) : e \in EmitChoices} ]_vars

-----------------------------------------------------------------------------
(* C30: an upload that is rejected with 400 or 403 leaves the catalog
   unchanged: it creates no Packet row and no League row, also when the URL
   names a league that does not exist yet. *)
C30_RejectedUploadChangesNothing ==
    [][ (last'.op = "upload" /\ last'.status \in {400, 403}) =>
           (packets' = packets /\ leagues' = leagues) ]_vars

====
